---- MODULE Spec2Model ----
(***************************************************************************)
(* Cache refresh protocol of the Notion cache (Celery tasks                *)
(* update_projects_cache, update_tasks_cache, update_todos_cache and       *)
(* update_activities_cache) over the cache_metadata table and the cached   *)
(* row tables.  Every committed database transaction is one atomic step;   *)
(* what readers and other workers see is the committed state.              *)
(* The activity statistics (daily aggregation of the activity ledger into  *)
(* activity_summaries, in single calls and in batches, and the heatmap)    *)
(* are modelled over the same database, statement by statement where       *)
(* sessions run concurrently.                                              *)
(***************************************************************************)
EXTENDS Integers, Sequences, FiniteSets, TLC

\* ------------------------------------------------------------------ bounds
\* Page / todo ids are 1..NIds; a source snapshot lists at most MaxSnap items.
NIds == 2
MaxSnap == 2
\* While two tasks are queued the broker delivers at most MaxRuns executions
\* (first runs and retries) in total; a task that is alone runs its whole
\* retry chain.
MaxRuns == 2
\* Calendar days are 1..NDays; the ledger holds at most MaxGroups groups of
\* at most MaxPerGroup rows each.
NDays == 2
MaxGroups == 2
MaxPerGroup == 3
\* A heatmap covers at most MaxWindow days; a summary row holds a score of
\* at most MaxScore.
MaxWindow == 4
MaxScore == 10

\* ------------------------------------------------------- program constants
\* @celery_app.task(..., max_retries=3)
max_retries == 3
\* countdown=60 * (2 ** self.request.retries)
RetryBase == 60
\* datetime.min.time() and datetime.max.time(), in order
time_min == 0
time_max == 1
\* person_repo.get_all(limit=10000)
PersonLimit == 10000

\* Celery workers that may execute a task at the same time (beat schedule,
\* a manual .delay() and retries all land on the same worker pool).
Workers == {"w1", "w2"}

CacheTypes == {"projects", "tasks", "todos"}
TaskTypes == CacheTypes \cup {"activities"}

IDs == 1..NIds
NoMember == "-"

\* str(exc) of the exceptions the refresh can raise.
NoError == "None"
FetchError == "notion fetch failed"
ParseError == "invalid isoformat string"
DbError == "database error"

\* update_duration_seconds: NULL, int(time.time() - start_time), or the 0
\* the handler uses when start_time was never assigned.
NoDuration == "NULL"
Elapsed == "elapsed"
ZeroDuration == "zero"
NoStamp == <<"none", 0, "none">>

VARIABLES
    meta,      \* cache_metadata: one row (or none) per cache type
    rows,      \* cached_notion_projects / _tasks / _todos: committed rows
    members,   \* cached_team_members: committed member names
    task,      \* per worker: the task it executes and where it is
    ledger,    \* conversation_activities and task_activities rows
    summaries, \* activity_summaries rows
    last,      \* what the last aggregate_daily_activities call returned
    sess,      \* per database session: the batch it runs and where it is
    heat,      \* the last HeatmapResponse
    reply,     \* the last response of another endpoint
    notion,    \* the conversation and Kanban databases of the provider
    people     \* persons: the rows of the persons table

cacheVars == <<meta, rows, members, task>>
statsVars == <<ledger, summaries, last, sess, heat, reply, notion, people>>
vars ==
    <<meta, rows, members, task, ledger, summaries, last, sess, heat, reply,
      notion, people>>

\* ----------------------------------------------------------- pure helpers
RECURSIVE Pow2(_)
Pow2(n) == IF n = 0 THEN 1 ELSE 2 * Pow2(n - 1)

SeqsUpTo(S, n) == UNION {[1..k -> S] : k \in 0..n}

\* The snapshot the source returns: a list of items.  Projects and tasks
\* carry a page id only.  A todos snapshot is a list of boards, one per
\* member and in member order; the boards here list one todo each, so the
\* k-th item is the todo on the board of the k-th member (the same todo id
\* at two positions is one todo on the boards of two members).
\* Ids are interchangeable and no code orders them, so the id lists are
\* taken in non-decreasing order.
Item(i, m) == [id |-> i, member |-> m]
IdLists == {s \in SeqsUpTo(IDs, MaxSnap) : \A k \in 1..(Len(s) - 1) : s[k] <= s[k + 1]}
MemberAt(k) == <<"a", "b", "c", "d">>[k]
Snapshots(t) ==
    IF t = "todos"
    THEN {[k \in 1..Len(s) |-> Item(s[k], MemberAt(k))] : s \in IdLists}
    ELSE {[k \in 1..Len(s) |-> Item(s[k], NoMember)] : s \in IdLists}

IdsOf(s) == {s[k].id : k \in 1..Len(s)}
RowsOf(s) == {s[k] : k \in 1..Len(s)}
MembersOf(s) == {s[k].member : k \in 1..Len(s)}

\* todos_dict: the first occurrence of each todo id wins, later ones are
\* skipped ("if todo.id in todos_dict: continue").
RECURSIVE DedupFrom(_, _, _)
DedupFrom(s, k, seen) ==
    IF k > Len(s) THEN <<>>
    ELSE IF s[k].id \in seen THEN DedupFrom(s, k + 1, seen)
    ELSE <<s[k]>> \o DedupFrom(s, k + 1, seen \cup {s[k].id})
todos_dict(s) == DedupFrom(s, 1, {})

\* The list handed to bulk_insert_*: projects and tasks convert item by
\* item (duplicates stay), todos go through todos_dict.
cached_list(t, s) == IF t = "todos" THEN todos_dict(s) ELSE s

HasDuplicateIds(s) == \E j, k \in 1..Len(s) : j # k /\ s[j].id = s[k].id

\* ----------------------------------------------------------- metadata row
NoRow == [exists |-> FALSE, is_updating |-> FALSE, last_updated |-> NoStamp,
          total_records |-> 0, duration |-> NoDuration, error_message |-> NoError]

\* datetime.utcnow() of a write: a value that identifies the write (worker,
\* attempt, which write of the attempt); two different writes never share it.
Stamp(w, kind) == <<w, task[w].retries, kind>>

\* Variant: the query has no cache_type filter and returns the first row.
get_cache_metadata_FirstRow(t) == meta["projects"]

get_cache_metadata(t) == meta[t]

\* Variant: the write leaves error_message alone when there is no new error.
update_cache_metadata_KeepsError(row, now, total, dur, err) ==
    [exists |-> TRUE, is_updating |-> FALSE, last_updated |-> now,
     total_records |-> total, duration |-> dur,
     error_message |-> IF err = NoError THEN row.error_message ELSE err]

update_cache_metadata(row, now, total, dur, err) ==
    [exists |-> TRUE, is_updating |-> FALSE, last_updated |-> now,
     total_records |-> total, duration |-> dur, error_message |-> err]

set_cache_updating(row, now, flag) ==
    IF row.exists
    THEN [row EXCEPT !.is_updating = flag]
    ELSE [exists |-> TRUE, is_updating |-> flag, last_updated |-> now,
          total_records |-> 0, duration |-> NoDuration, error_message |-> NoError]

\* What a reader gets: get_all_cached_projects / _tasks / _todos.
get_all_cached(t) == rows[t]

\* CachedNotionService.get_all_member_todos: every cached team member with
\* the cached todos that carry the member's name.
get_all_member_todos(M, T) == [m \in M |-> {r \in T : r.member = m}]

\* ------------------------------------------------------ activity ledger
\* Persons in username order (person_repo.get_all orders by username).
Persons == {"ann", "bob"}
PersonOrder == <<"ann", "bob">>
Days == 1..NDays
Kinds == {"conversation", "task"}

\* A timestamp is a calendar day (UTC) and a time of day: time_min is
\* 00:00:00 and time_max is 23:59:59.999999.
At(d, tm) == [day |-> d, time |-> tm]
Leq(a, b) == a.day < b.day \/ (a.day = b.day /\ a.time <= b.time)

\* The ledger rows that share kind, person and timestamp are kept as one
\* group with their number n (the rows differ in their ids only).
Group(k, p, at, n) == [kind |-> k, person |-> p, at |-> at, n |-> n]
\* What the rows of a group share.
Slot(k, p, at) == [kind |-> k, person |-> p, at |-> at]
Slots ==
    {Slot(k, p, At(d, tm)) :
        k \in Kinds, p \in Persons, d \in Days, tm \in {time_min, time_max}}
RECURSIVE SlotSetsUpTo(_)
SlotSetsUpTo(k) ==
    IF k = 0 THEN {{}}
    ELSE LET smaller == SlotSetsUpTo(k - 1)
         IN smaller \cup UNION {{X \cup {x} : x \in Slots \ X} : X \in smaller}
\* The ledger with f[x] rows in slot x, for each slot x of X.
LedgerOf(X, f) == {Group(x.kind, x.person, x.at, f[x]) : x \in X}

RECURSIVE SumN(_)
SumN(G) == IF G = {} THEN 0
           ELSE LET g == CHOOSE x \in G : TRUE IN g.n + SumN(G \ {g})

\* datetime.combine(target_date, datetime.min.time() / datetime.max.time())
start_datetime(d) == At(d, time_min)
\* Variant: the interval is closed at the next midnight.
end_datetime_NextMidnight(d) == At(d + 1, time_min)
end_datetime(d) == At(d, time_max)

\* Variant: the count leaves out the person filter.
count_activities_AnyPerson(L, k, p, lo, hi) ==
    SumN({g \in L : /\ g.kind = k
                     /\ Leq(lo, g.at)
                     /\ Leq(g.at, hi)})

\* select(func.count(ConversationActivity.id)).where(person_id == ...,
\*   created_at >= start_datetime, created_at <= end_datetime)
count_activities(L, k, p, lo, hi) ==
    SumN({g \in L : /\ g.kind = k
                     /\ g.person = p
                     /\ Leq(lo, g.at)
                     /\ Leq(g.at, hi)})

\* Variant: the score is the plain number of events.
total_score_Unweighted(c, t) == c + t

\* total_score = conversations_count + (tasks_count * 2)
total_score(c, t) == c + (t * 2)

\* ---------------------------------------------------- activity summaries
\* A row of activity_summaries; "by" tells the INSERT that made the row
\* (two INSERTs of equal values are two rows unless the key forbids it).
SummaryRow(p, at, c, t, sc, by) ==
    [person |-> p, date |-> at, conversations_created |-> c,
     tasks_completed |-> t, total_activity_score |-> sc, by |-> by]

\* func.date(ActivitySummary.date): the calendar day of the timestamp (the
\* database session runs in UTC, like the timestamps written here).
func_date(at) == at.day

\* Variant: the lookup compares the day only, not the person.
find_summary_AnyPerson(S, p, at) ==
    {r \in S : func_date(r.date) = func_date(at)}

\* select(ActivitySummary).where(person_id == person_id,
\*                               func.date(date) == date.date())
find_summary(S, p, at) ==
    {r \in S : r.person = p /\ func_date(r.date) = func_date(at)}

\* Variant: the update adds to the stored counts.
update_summary_Increments(r, at, c, t, sc) ==
    [r EXCEPT !.date = at,
              !.conversations_created = @ + c,
              !.tasks_completed = @ + t,
              !.total_activity_score = @ + sc]

\* "if summary:" branch of create_or_update_summary.
update_summary(r, at, c, t, sc) ==
    [r EXCEPT !.date = at,
              !.conversations_created = c,
              !.tasks_completed = t,
              !.total_activity_score = sc]

\* create_or_update_summary on the table S as the session sees it; the
\* lookup found at most one row.
create_or_update_summary(S, p, at, c, t, sc, by) ==
    LET found == find_summary(S, p, at)
    IN IF found # {}
       THEN (S \ found) \cup {update_summary(r, at, c, t, sc) : r \in found}
       ELSE S \cup {SummaryRow(p, at, c, t, sc, by)}

\* aggregate_daily_activities(person_id, target_date) on ledger L and
\* summary table S: the table after the call.
aggregate_daily_activities(L, S, p, d, by) ==
    LET lo == start_datetime(d)
        hi == end_datetime(d)
        conversations_count == count_activities(L, "conversation", p, lo, hi)
        tasks_count == count_activities(L, "task", p, lo, hi)
    IN create_or_update_summary(S, p, lo, conversations_count, tasks_count,
                                total_score(conversations_count, tasks_count), by)

\* ------------------------------------------------------------------- sync
\* A ledger row made by a sync: one row with the external id of its page.
Event(k, ext, p, at) ==
    [kind |-> k, person |-> p, at |-> at, n |-> 1, ext |-> ext]

\* A page of the conversation database: its id, created_time, the people
\* of its attendees property, the person its title names ("-": none) and
\* created_by ("-": none).
ConvPage(id, d, attendees, title_name, creator) ==
    [id |-> id, created_time |-> At(d, time_min), attendees |-> attendees,
     title_name |-> title_name, creator |-> creator]

\* A page of the Kanban database: its id, the name of its status, the
\* completion time ("Date Done", else last_edited_time) and its assignees.
TaskPage(id, status, d, assignees) ==
    [id |-> id, status |-> status, completed_at |-> At(d, time_min),
     assignees |-> assignees]

Range(q) == {q[i] : i \in DOMAIN q}

\* A row of the persons table: the serial id and the Notion user id (the
\* username is the same name).  The other tables refer to a person by the
\* name of the row.
PersonRow(id, nid) == [id |-> id, notion_id |-> nid]
NotionIds(P) == {r.notion_id : r \in P}

\* Variant: the lookup never finds a row.
get_by_notion_id_NoneFound(P, nid) == {}

\* select(Person).where(Person.notion_id == notion_id)
get_by_notion_id(P, nid) == {r \in P : r.notion_id = nid}

\* get_or_create_by_notion_id on the table P: the table afterwards, the
\* person and the created flag.  The lookup and the INSERT run in one
\* session, one after the other.
get_or_create_by_notion_id(P, nid) ==
    LET found == get_by_notion_id(P, nid)
    IN IF found # {}
       THEN [people |-> P, person |-> CHOOSE r \in found : TRUE,
             created |-> FALSE]
       ELSE LET person == PersonRow(Cardinality(P) + 1, nid)
            IN [people |-> P \cup {person}, person |-> person,
                created |-> TRUE]

\* for attendee_data in attendees: get or create the person; n counts
\* stats["persons_created"].
RECURSIVE get_or_create_each(_, _, _)
get_or_create_each(P, a, n) ==
    IF a = <<>> THEN [people |-> P, persons_created |-> n]
    ELSE LET r == get_or_create_by_notion_id(P, Head(a))
         IN get_or_create_each(r.people, Tail(a),
                               n + (IF r.created THEN 1 ELSE 0))

\* The attendees of a conversation page: the attendees property, else the
\* person whose name the title starts with if the persons table P has one
\* (get_all(search=..., limit=1)), else the creator.
attendees_of(page, P) ==
    LET named == IF page.attendees = <<>> /\ page.title_name \in NotionIds(P)
                 THEN <<page.title_name>> ELSE page.attendees
    IN IF named = <<>> /\ page.creator # "-" THEN <<page.creator>> ELSE named

\* for page in all_pages: one activity per attendee, each attendee got or
\* created in the persons table.
RECURSIVE conversation_activities(_, _, _, _)
conversation_activities(pages, P, acts, n) ==
    IF pages = <<>> THEN [people |-> P, acts |-> acts, persons_created |-> n]
    ELSE LET page == Head(pages)
             a == attendees_of(page, P)
             g == get_or_create_each(P, a, n)
         IN conversation_activities(Tail(pages), g.people,
                acts \o [i \in DOMAIN a |->
                           Event("conversation", page.id, a[i],
                                 page.created_time)],
                g.persons_created)

\* for page in all_pages: only "Done" pages with an assignee, one activity
\* per assignee.
RECURSIVE task_activities(_, _, _, _)
task_activities(pages, P, acts, n) ==
    IF pages = <<>> THEN [people |-> P, acts |-> acts, persons_created |-> n]
    ELSE LET page == Head(pages)
             a == IF page.status = "Done" THEN page.assignees ELSE <<>>
             g == get_or_create_each(P, a, n)
         IN task_activities(Tail(pages), g.people,
                acts \o [i \in DOMAIN a |->
                           Event("task", page.id, a[i], page.completed_at)],
                g.persons_created)

\* Variant: a task is looked up by task id and person.
existing_activity_ByPerson(L, a) ==
    {e \in L : e.kind = a.kind /\ e.ext = a.ext /\ e.person = a.person}

\* get_conversation_by_notion_id_and_person / get_task_by_notion_id.
existing_activity(L, a) ==
    {e \in L : /\ e.kind = a.kind
               /\ e.ext = a.ext
               /\ a.kind = "conversation" => e.person = a.person}

\* bulk_create_conversations / bulk_create_tasks: a missing activity is
\* created, an existing one gets the timestamp of the page if it differs;
\* n counts the created ones.
RECURSIVE bulk_create(_, _, _)
bulk_create(L, acts, n) ==
    IF acts = <<>> THEN [ledger |-> L, created |-> n]
    ELSE LET a == Head(acts)
             found == existing_activity(L, a)
         IN IF found = {}
            THEN bulk_create(L \cup {a}, Tail(acts), n + 1)
            ELSE bulk_create((L \ found) \cup {[e EXCEPT !.at = a.at] : e \in found},
                             Tail(acts), n)

\* sync_conversations / sync_tasks on the pages of the database: if a query
\* of the provider raises, the except clause of the method records the
\* error and the method returns with nothing synced.
sync_pages(acts, L) ==
    LET b == bulk_create(L, acts.acts, 0)
    IN [people |-> acts.people, ledger |-> b.ledger, synced |-> b.created,
        persons_created |-> acts.persons_created, errors |-> {}]
sync_conversations(pages, P, L, fails) ==
    IF fails
    THEN [people |-> P, ledger |-> L, synced |-> 0, persons_created |-> 0,
          errors |-> {"Error syncing conversations"}]
    ELSE sync_pages(conversation_activities(pages, P, <<>>, 0), L)
sync_tasks(pages, P, L, fails) ==
    IF fails
    THEN [people |-> P, ledger |-> L, synced |-> 0, persons_created |-> 0,
          errors |-> {"Error syncing tasks"}]
    ELSE sync_pages(task_activities(pages, P, <<>>, 0), L)

\* sync_all: conversations, then tasks, then the commit; if the commit
\* raises, the error is recorded and the session rolled back.  It returns
\* the statistics and never raises for these failures.
sync_all(N, P, L, failc, failt, faildb) ==
    LET c == sync_conversations(N.convs, P, L, failc)
        t == sync_tasks(N.tasks, c.people, c.ledger, failt)
    IN [people |-> IF faildb THEN P ELSE t.people,
        ledger |-> IF faildb THEN L ELSE t.ledger,
        conversations_synced |-> c.synced, tasks_synced |-> t.synced,
        persons_created |-> c.persons_created + t.persons_created,
        errors |-> c.errors \cup t.errors
                     \cup (IF faildb THEN {"Sync failed"} ELSE {})]

\* bulk_aggregate_daily_activities(first, final) for the persons P, none
\* of its statements failing: day by day, the persons in username order.
RECURSIVE aggregate_pairs(_, _, _)
aggregate_pairs(L, S, q) ==
    IF q = <<>> THEN S
    ELSE aggregate_pairs(L,
             aggregate_daily_activities(L, S, Head(q)[1], Head(q)[2], "task"),
             Tail(q))
bulk_aggregate(L, S, P, first, final) ==
    LET ps == SelectSeq(PersonOrder, LAMBDA x : x \in NotionIds(P))
        np == Len(ps)
    IN aggregate_pairs(L, S,
           [i \in 1..((IF final >= first THEN final - first + 1 ELSE 0) * np) |->
               <<ps[((i - 1) % np) + 1], first + ((i - 1) \div np)>>])

\* ------------------------------------------------------ database sessions
\* A session (AsyncSessionLocal()) runs one batch in one transaction:
\* bulk_aggregate_daily_activities(start, end), or one
\* aggregate_daily_activities(person, day) followed by the commit.
\*   todo     the (person, day) pairs still to aggregate, in loop order
\*   found    the row the lookup of the current pair returned, if any
\*   ins/upd  rows flushed (INSERT / UPDATE) and not yet committed
\*   txn      "active", "aborted" (a statement failed: the server refuses
\*            every later statement and turns COMMIT into ROLLBACK) or
\*            "inactive" (a flush failed: the Session rolled back and
\*            raises PendingRollbackError until rollback() is called)
\*   ok/bad   the pairs whose aggregation returned / raised
\*   count    the local counter of bulk_aggregate_daily_activities
Sessions == {"s1", "s2"}
NoCount == [c |-> 0, t |-> 0]
NoSession ==
    [pc |-> "off", kind |-> "none", first |-> 0, final |-> 0, todo |-> <<>>,
     counts |-> NoCount, found |-> {}, ins |-> {}, upd |-> {},
     txn |-> "active", ok |-> {}, bad |-> {}, count |-> 0, result |-> "none"]
IdleSession == [NoSession EXCEPT !.pc = "idle"]

NoCall == [person |-> "-", day |-> 0, conversations_created |-> 0,
           tasks_completed |-> 0, total_activity_score |-> 0, repeat |-> FALSE]
NoHeat == [person |-> "-", days |-> 0, today |-> 0, max_activity |-> 0,
           data |-> <<>>]
NoReply == [kind |-> "none"]
NoSource == [convs |-> <<>>, tasks |-> <<>>, rev |-> 0]

\* Nothing of the activity statistics is in use (the cache refresh tasks
\* do not touch it), and nothing of the cache is.
StatsIdle ==
    /\ ledger = {}
    /\ summaries = {}
    /\ last = NoCall
    /\ sess = [s \in Sessions |-> NoSession]
    /\ heat = NoHeat
    /\ reply = NoReply
    /\ notion = NoSource
    /\ people = {}

\* ------------------------------------------------------------- task state
NewTask(t) ==
    [ctype |-> t, pc |-> "start", retries |-> 0, runs |-> 0,
     snap |-> <<>>, exc |-> NoError, dirty |-> FALSE, started |-> FALSE,
     before |-> {}, result |-> "none", countdown |-> 0, errors |-> {}]

\* A worker with nothing to execute.
Idle == [NewTask("none") EXCEPT !.pc = "idle"]

\* The database is empty, or the cache of the type about to be refreshed
\* holds what an earlier, successful refresh of a one-item snapshot left.
\* One task is queued, or two of the same type (a scheduled run and a manual
\* .delay(), or two scheduled runs).
EarlierStamp == <<"earlier", 0, "end">>
Seeds(t) ==
    IF t \in CacheTypes
    THEN {s \in Snapshots(t) : Len(s) = 0 \/ (Len(s) = 1 /\ s[1].id = 1)}
    ELSE {<<>>}

Init ==
    \E t \in TaskTypes : \E s0 \in Seeds(t) :
        /\ rows = [c \in CacheTypes |-> IF c = t THEN RowsOf(s0) ELSE {}]
        /\ meta = [c \in CacheTypes |->
                     IF c = t /\ s0 # <<>>
                     THEN update_cache_metadata(NoRow, EarlierStamp, Len(s0),
                                                Elapsed, NoError)
                     ELSE NoRow]
        /\ members = IF t = "todos" THEN MembersOf(s0) ELSE {}
        /\ \/ task = [w \in Workers |-> NewTask(t)]
           \/ task = [w \in Workers |-> IF w = "w1" THEN NewTask(t) ELSE Idle]
        /\ StatsIdle

IsCache(w) == task[w].ctype \in CacheTypes
\* A refresh is in progress from the commit of is_updating = true until the
\* task function exits.
Refreshing(w) == IsCache(w) /\ task[w].started

RECURSIVE SumRuns(_)
SumRuns(W) == IF W = {} THEN 0
              ELSE LET w == CHOOSE x \in W : TRUE
                   IN task[w].runs + SumRuns(W \ {w})
Delivered == SumRuns(Workers)
Deliverable(w) ==
    \/ Delivered < MaxRuns
    \/ \A v \in Workers \ {w} : task[v].pc = "idle"

\* Raise inside the try block: control goes to "except Exception".
Raise(w, msg, isDb) ==
    [task[w] EXCEPT !.pc = "except", !.exc = msg, !.dirty = isDb, !.snap = <<>>]

\* The task function returns or raises: its locals and its session are gone.
Exit(tk, res) ==
    [tk EXCEPT !.pc = "done", !.result = res, !.snap = <<>>, !.exc = NoError,
               !.dirty = FALSE, !.started = FALSE, !.before = {}]

\* self.retry(exc=exc, countdown=60 * (2 ** self.request.retries)): Celery
\* re-queues the task with retries + 1 unless max_retries is used up, and
\* then the task ends in state FAILURE.
\* Variant: the retry limit is off by one.
CanRetry_OffByOne(n) == n <= max_retries

CanRetry(n) == n < max_retries

self_retry(tk) ==
    IF CanRetry(tk.retries)
    THEN [Exit(tk, "retry") EXCEPT !.pc = "retry_wait",
                                   !.countdown = RetryBase * Pow2(tk.retries),
                                   !.retries = tk.retries + 1]
    ELSE Exit(tk, "failure")

\* ---------------------------------------------------------------- actions
\* metadata = get_cache_metadata(cache_type); skip when it is updating.
\* Variant: the test of the flag is inverted.
AlreadyUpdating_Inverted(row) == row.exists /\ ~row.is_updating

AlreadyUpdating(row) == row.exists /\ row.is_updating

CheckUpdating(w) ==
    /\ IsCache(w)
    /\ task[w].pc = "start"
    /\ Deliverable(w)
    /\ LET t == task[w].ctype
           tk == [task[w] EXCEPT !.runs = @ + 1]
       IN task' = [task EXCEPT ![w] =
                     IF AlreadyUpdating(get_cache_metadata(t))
                     THEN Exit(tk, "skipped")
                     ELSE [tk EXCEPT !.pc = "set", !.result = "none"]]
    /\ UNCHANGED <<meta, rows, members>>
    /\ UNCHANGED statsVars

\* cache_repo.set_cache_updating(cache_type, True); start_time = time.time()
SetCacheUpdating(w) ==
    /\ IsCache(w)
    /\ task[w].pc = "set"
    /\ LET t == task[w].ctype
       IN \E ok \in BOOLEAN :
            IF ok
            THEN /\ meta' = [meta EXCEPT ![t] =
                               set_cache_updating(meta[t], Stamp(w, "set"), TRUE)]
                 /\ task' = [task EXCEPT ![w] =
                               [@ EXCEPT !.pc = "fetch", !.started = TRUE,
                                         !.before = get_all_cached(t)]]
            ELSE /\ task' = [task EXCEPT ![w] = Raise(w, DbError, TRUE)]
                 /\ UNCHANGED meta
    /\ UNCHANGED <<rows, members>>
    /\ UNCHANGED statsVars

\* cache_repo.clear_*_cache(): delete every row, commit.
clear_cache(t) == [rows EXCEPT ![t] = {}]

\* Variant: the old rows are cleared before the fetch has returned.
Fetch_AfterClear(w) ==
    /\ IsCache(w)
    /\ task[w].pc = "fetch"
    /\ \/ /\ \E s \in Snapshots(task[w].ctype) :
               task' = [task EXCEPT ![w] = [@ EXCEPT !.pc = "clear", !.snap = s]]
          /\ UNCHANGED rows
       \/ /\ task' = [task EXCEPT ![w] = Raise(w, FetchError, FALSE)]
          /\ rows' = clear_cache(task[w].ctype)
    /\ UNCHANGED <<meta, members>>
    /\ UNCHANGED statsVars

\* run_async(notion_service.get_all_projects()) and its siblings.
Fetch(w) ==
    /\ IsCache(w)
    /\ task[w].pc = "fetch"
    /\ \/ \E s \in Snapshots(task[w].ctype) :
            task' = [task EXCEPT ![w] = [@ EXCEPT !.pc = "clear", !.snap = s]]
       \/ task' = [task EXCEPT ![w] = Raise(w, FetchError, FALSE)]
    /\ UNCHANGED <<meta, rows, members>>
    /\ UNCHANGED statsVars

ClearCache(w) ==
    /\ IsCache(w)
    /\ task[w].pc = "clear"
    /\ \E ok \in BOOLEAN :
         IF ok
         THEN /\ rows' = clear_cache(task[w].ctype)
              /\ task' = [task EXCEPT ![w] = [@ EXCEPT !.pc = "insert"]]
         ELSE /\ task' = [task EXCEPT ![w] = Raise(w, DbError, TRUE)]
              /\ UNCHANGED rows
    /\ UNCHANGED <<meta, members>>
    /\ UNCHANGED statsVars

\* The conversion loop, then cache_repo.bulk_insert_*(cached): INSERT every
\* object, commit.  The loop of update_projects_cache / update_tasks_cache
\* touches no shared state; datetime.fromisoformat raises on a malformed
\* created_time / last_edited_time.  The loop of update_todos_cache parses
\* inside try/except and upserts the team member of every board
\* (get_or_create_team_member commits each one): k of them are committed
\* before a database error stops the loop.  page_id / todo_id is the primary
\* key of the cached rows: a duplicate id raises IntegrityError.
ParsesDates(t) == t # "todos"

PkConflict(t, c) ==
    \/ HasDuplicateIds(c)
    \/ \E r \in rows[t] : r.id \in IdsOf(c)

bulk_insert(t, c) == [rows EXCEPT ![t] = @ \cup RowsOf(c)]

\* Variant: the members that are not on the boards are dropped.
get_or_create_team_members_Replaces(t, s, k) ==
    IF t = "todos" THEN {s[j].member : j \in 1..k} ELSE members

get_or_create_team_members(t, s, k) ==
    IF t = "todos" THEN members \cup {s[j].member : j \in 1..k} ELSE members

BulkInsert(w) ==
    /\ IsCache(w)
    /\ task[w].pc = "insert"
    /\ LET t == task[w].ctype
           s == task[w].snap
           c == cached_list(t, s)
       IN \/ /\ ParsesDates(t)
             /\ s # <<>>
             /\ task' = [task EXCEPT ![w] = Raise(w, ParseError, FALSE)]
             /\ UNCHANGED <<rows, members>>
          \/ /\ ~ParsesDates(t)
             /\ \E k \in 0..(Len(s) - 1) :
                  /\ members' = get_or_create_team_members(t, s, k)
                  /\ task' = [task EXCEPT ![w] = Raise(w, DbError, TRUE)]
                  /\ UNCHANGED rows
          \/ /\ members' = get_or_create_team_members(t, s, Len(s))
             /\ \E ok \in BOOLEAN :
                  IF ok /\ ~PkConflict(t, c)
                  THEN /\ rows' = bulk_insert(t, c)
                       /\ task' = [task EXCEPT ![w] = [@ EXCEPT !.pc = "meta"]]
                  ELSE /\ task' = [task EXCEPT ![w] = Raise(w, DbError, TRUE)]
                       /\ UNCHANGED rows
    /\ UNCHANGED meta
    /\ UNCHANGED statsVars

\* update_cache_metadata(total_records=len(cached), duration, None); return.
RecordSuccess(w) ==
    /\ IsCache(w)
    /\ task[w].pc = "meta"
    /\ LET t == task[w].ctype
           c == cached_list(t, task[w].snap)
       IN \E ok \in BOOLEAN :
            IF ok
            THEN /\ meta' = [meta EXCEPT ![t] =
                               update_cache_metadata(meta[t], Stamp(w, "end"),
                                                     Len(c), Elapsed, NoError)]
                 /\ task' = [task EXCEPT ![w] =
                               Exit(task[w], "success")]
            ELSE /\ task' = [task EXCEPT ![w] = Raise(w, DbError, TRUE)]
                 /\ UNCHANGED meta
    /\ UNCHANGED <<rows, members>>
    /\ UNCHANGED statsVars

\* except Exception as exc: record the error in the metadata row, then
\* self.retry.  Only update_todos_cache rolls the session back first and
\* guards the metadata write with try/except; in the other two a session
\* left in a failed transaction makes the metadata write raise, and that
\* exception leaves the handler before self.retry is reached.
RollsBack(t) == t = "todos"
GuardsErrorWrite(t) == t = "todos"

HandleError(w) ==
    /\ IsCache(w)
    /\ task[w].pc = "except"
    /\ LET t == task[w].ctype
           usable == RollsBack(t) \/ ~task[w].dirty
           d == IF task[w].started THEN Elapsed ELSE ZeroDuration
       IN \E ok \in BOOLEAN :
            LET wrote == ok /\ usable
            IN /\ meta' = IF wrote
                          THEN [meta EXCEPT ![t] =
                                  update_cache_metadata(meta[t], Stamp(w, "end"),
                                                        0, d, task[w].exc)]
                          ELSE meta
               /\ task' = [task EXCEPT ![w] =
                             IF wrote \/ GuardsErrorWrite(t)
                             THEN self_retry(task[w])
                             ELSE Exit(task[w], "crashed")]
    /\ UNCHANGED <<rows, members>>
    /\ UNCHANGED statsVars

\* Celery runs the retried task after the countdown: a new call of the task
\* function, with a new session and no locals.
Redeliver(w) ==
    /\ task[w].pc = "retry_wait"
    /\ task' = [task EXCEPT ![w] =
                  [@ EXCEPT !.pc = "start"]]
    /\ UNCHANGED <<meta, rows, members>>
    /\ UNCHANGED statsVars

\* update_activities_cache: start_time = time.time(), then the try block.
StartActivities(w) ==
    /\ task[w].ctype = "activities"
    /\ task[w].pc = "start"
    /\ Deliverable(w)
    /\ task' = [task EXCEPT ![w] =
                  [@ EXCEPT !.pc = "sync", !.runs = @ + 1, !.started = TRUE,
                            !.result = "none", !.errors = {}]]
    /\ UNCHANGED <<meta, rows, members>>
    /\ UNCHANGED statsVars

\* run_async(sync_and_aggregate_activities()): sync_all(incremental=False)
\* and its commit, then bulk_aggregate_daily_activities from the start of
\* the year (day 1) to today (day NDays).  A failure of the provider or of
\* the commit of the sync stays inside sync_all, which returns its
\* statistics with the errors: the task goes on and returns "success".  An
\* exception of the aggregation goes straight to self.retry (no metadata
\* is written); what the sync committed stays.  A statement of one
\* aggregation that fails ("query") is caught by the loop of
\* bulk_aggregate_daily_activities and logged only: the transaction is
\* aborted, the later aggregations fail the same way, the COMMIT ends as a
\* ROLLBACK and the task returns "success" with no row written.
SyncAndAggregate(w) ==
    /\ task[w].ctype = "activities"
    /\ task[w].pc = "sync"
    /\ \E failc, failt \in BOOLEAN :
       \E db \in {"ok", "sync", "aggregate", "query"} :
          LET r == sync_all(notion, people, ledger, failc, failt, db = "sync")
          IN /\ people' = r.people
             /\ ledger' = r.ledger
             /\ IF db = "aggregate"
                THEN /\ summaries' = summaries
                     /\ task' = [task EXCEPT ![w] =
                                   self_retry([task[w] EXCEPT
                                                 !.exc = FetchError])]
                ELSE /\ summaries' = IF db = "query" THEN summaries
                                     ELSE bulk_aggregate(r.ledger, summaries,
                                                         r.people, 1, NDays)
                     /\ task' = [task EXCEPT ![w] =
                                   Exit([task[w] EXCEPT !.errors = r.errors],
                                        "success")]
    /\ UNCHANGED <<meta, rows, members>>
    /\ UNCHANGED <<last, sess, heat, reply, notion>>

Next ==
    \E w \in Workers :
        \/ CheckUpdating(w)
        \/ SetCacheUpdating(w)
        \/ Fetch(w)
        \/ ClearCache(w)
        \/ BulkInsert(w)
        \/ RecordSuccess(w)
        \/ HandleError(w)
        \/ Redeliver(w)
        \/ StartActivities(w)
        \/ SyncAndAggregate(w)

Spec == Init /\ [][Next]_vars

\* ------------------------------------------------------------ worker death
\* The worker process is killed (OOM, SIGKILL, host reboot) while it executes
\* the task body: no except / finally clause runs and, the task being
\* acknowledged on receipt (acks_late is not set), nobody re-queues it.
\* The result tells whether is_updating = true was committed by this run and
\* still stood when the worker died.
Killable == {"set", "fetch", "clear", "insert", "meta", "except", "sync"}
Crash(w) ==
    /\ task[w].pc \in Killable
    /\ LET holding == /\ Refreshing(w)
                      /\ meta[task[w].ctype].is_updating
       IN task' = [task EXCEPT ![w] =
                     [Exit(task[w], IF holding THEN "died_holding" ELSE "died")
                        EXCEPT !.pc = "dead"]]
    /\ UNCHANGED <<meta, rows, members>>
    /\ UNCHANGED statsVars

NextCrash == Next \/ \E w \in Workers : Crash(w)

SpecCrash == Init /\ [][NextCrash]_vars

\* ----------------------------------------------- tasks of different types
\* Two tasks of different types are queued (the beat schedule fires the four
\* tasks independently); each cache is empty or holds an earlier refresh.
SeedMeta(s0) ==
    IF s0 # <<>>
    THEN update_cache_metadata(NoRow, EarlierStamp, Len(s0), Elapsed, NoError)
    ELSE NoRow

\* The workers are interchangeable: each pair of types is taken once.
TypeOrder == <<"projects", "tasks", "todos", "activities">>
InitMixed ==
    \E i \in DOMAIN TypeOrder : \E j \in (i + 1)..Len(TypeOrder) :
    \E t1 \in {TypeOrder[i]} : \E t2 \in {TypeOrder[j]} :
    \E s1 \in Seeds(t1) : \E s2 \in Seeds(t2) :
        LET seed == [c \in CacheTypes |->
                       IF c = t1 THEN s1 ELSE IF c = t2 THEN s2 ELSE <<>>]
        IN /\ rows = [c \in CacheTypes |-> RowsOf(seed[c])]
           /\ meta = [c \in CacheTypes |-> SeedMeta(seed[c])]
           /\ members = MembersOf(seed["todos"])
           /\ task = [w \in Workers |-> NewTask(IF w = "w1" THEN t1 ELSE t2)]
           /\ StatsIdle

SpecMixed == InitMixed /\ [][Next]_vars

\* ------------------------------------------------- aggregation, one call
\* No cache refresh task runs.
CacheIdle ==
    /\ meta = [c \in CacheTypes |-> NoRow]
    /\ rows = [c \in CacheTypes |-> {}]
    /\ members = {}
    /\ task = [w \in Workers |-> Idle]

\* Any ledger of at most MaxGroups groups; no summary yet; one session
\* calls aggregate_daily_activities for some person and day, and again.
InitAggregate ==
    /\ CacheIdle
    /\ \E X \in SlotSetsUpTo(MaxGroups) :
       \E f \in [X -> 1..MaxPerGroup] : ledger = LedgerOf(X, f)
    /\ summaries = {}
    /\ last = NoCall
    /\ sess = [s \in Sessions |-> NoSession]
    /\ heat = NoHeat
    /\ reply = NoReply
    /\ notion = NoSource
    /\ people = {}

\* summary = await self.activity_repo.aggregate_daily_activities(...): the
\* whole call, in a session that sees its own earlier writes.
Aggregate(p, d) ==
    /\ last = NoCall \/ (last.person = p /\ last.day = d)
    /\ summaries' = aggregate_daily_activities(ledger, summaries, p, d, "s1")
    /\ LET r == CHOOSE x \in find_summary(summaries', p, start_datetime(d)) : TRUE
       IN last' = [person |-> p, day |-> d,
                   conversations_created |-> r.conversations_created,
                   tasks_completed |-> r.tasks_completed,
                   total_activity_score |-> r.total_activity_score,
                   repeat |-> last.person = p /\ last.day = d]
    /\ UNCHANGED <<ledger, sess, heat, reply>>
    /\ UNCHANGED <<notion, people>>
    /\ UNCHANGED cacheVars

NextAggregate == \E p \in Persons, d \in Days : Aggregate(p, d)

SpecAggregate == InitAggregate /\ [][NextAggregate]_vars

\* ------------------------------------------------ aggregation in batches
Min(a, b) == IF a <= b THEN a ELSE b

\* persons, _ = await person_repo.get_all(limit=10000)
known_persons == SubSeq(PersonOrder, 1, Min(Len(PersonOrder), PersonLimit))

\* Variant: the day loop stops before end_date.
day_count_Exclusive(first, final) == IF final > first THEN final - first ELSE 0

\* "while current_date <= end_date: ... current_date += timedelta(days=1)":
\* the number of iterations.
day_count(first, final) == IF final >= first THEN final - first + 1 ELSE 0

\* The (person, day) pairs in the order the two loops visit them.
bulk_pairs(first, final) ==
    LET np == Len(known_persons)
    IN [i \in 1..(day_count(first, final) * np) |->
          <<known_persons[((i - 1) % np) + 1], first + ((i - 1) \div np)>>]

PairsOf(q) == {q[i] : i \in 1..Len(q)}

\* The ledger of a batch run: empty, or one conversation.
BatchLedgers ==
    {{}} \cup {{Group("conversation", p, At(d, time_min), 1)} :
                p \in Persons, d \in Days}

InitBatch ==
    /\ CacheIdle
    /\ ledger \in BatchLedgers
    /\ summaries = {}
    /\ last = NoCall
    /\ \/ sess = [s \in Sessions |-> IdleSession]
       \/ sess = [s \in Sessions |-> IF s = "s1" THEN IdleSession ELSE NoSession]
    /\ heat = NoHeat
    /\ reply = NoReply
    /\ notion = NoSource
    /\ people = {}

StartBatch(s, k, first, final, q) ==
    /\ sess[s].pc = "idle"
    /\ sess' = [sess EXCEPT ![s] =
                  [@ EXCEPT !.pc = IF q = <<>> THEN "commit" ELSE "read",
                            !.kind = k, !.first = first, !.final = final,
                            !.todo = q]]
    /\ UNCHANGED <<ledger, summaries, last, heat, reply>>
    /\ UNCHANGED <<notion, people>>
    /\ UNCHANGED cacheVars

\* bulk_aggregate_daily_activities(start_date, end_date) is called.
BeginBulk(s) ==
    \E first \in Days, final \in Days :
        StartBatch(s, "bulk", first, final, bulk_pairs(first, final))

\* aggregate_daily_activities(person_id, target_date) is called.
BeginSingle(s) ==
    \E p \in Persons, d \in Days : StartBatch(s, "single", d, d, <<<<p, d>>>>)

\* Primary key of activity_summaries: (person_id, date).
pk(r) == <<r.person, r.date>>

\* Variant: the table has no primary key.
pk_taken_NoKey(S, r) == FALSE

pk_taken(S, r) == \E x \in S : pk(x) = pk(r)

\* The table as session s sees it: the committed rows and its own flushed
\* writes.
View(s) ==
    {r \in summaries : ~pk_taken(sess[s].upd, r)} \cup sess[s].upd \cup sess[s].ins

\* The aggregation of the current pair raised.  In the bulk loop the
\* exception is logged and the loop goes on; the pair is done.
PairDone(ss, isOk) ==
    LET rest == Tail(ss.todo)
    IN [ss EXCEPT !.todo = rest,
                  !.pc = IF rest = <<>> THEN "commit" ELSE "read",
                  !.counts = NoCount, !.found = {},
                  !.ok = IF isOk THEN @ \cup {Head(ss.todo)} ELSE @,
                  !.bad = IF isOk THEN @ ELSE @ \cup {Head(ss.todo)},
                  !.count = IF isOk THEN @ + 1 ELSE @]

\* The two count queries and the lookup of create_or_update_summary.
ReadPair(s) ==
    /\ sess[s].pc = "read"
    /\ LET ss == sess[s]
           p == Head(ss.todo)[1]
           d == Head(ss.todo)[2]
           lo == start_datetime(d)
           hi == end_datetime(d)
           got == find_summary(View(s), p, lo)
       IN \E dbok \in BOOLEAN :
            sess' = [sess EXCEPT ![s] =
              IF ss.txn # "active" THEN PairDone(ss, FALSE)
              ELSE IF ~dbok THEN PairDone([ss EXCEPT !.txn = "aborted"], FALSE)
              ELSE IF Cardinality(got) > 1 THEN PairDone(ss, FALSE)
              ELSE [ss EXCEPT !.pc = "write", !.found = got,
                      !.counts = [c |-> count_activities(ledger, "conversation", p, lo, hi),
                                  t |-> count_activities(ledger, "task", p, lo, hi)]]]
    /\ UNCHANGED <<ledger, summaries, last, heat, reply>>
    /\ UNCHANGED <<notion, people>>
    /\ UNCHANGED cacheVars

\* The row create_or_update_summary is about to flush.
RowToFlush(s) ==
    LET ss == sess[s]
        p == Head(ss.todo)[1]
        lo == start_datetime(Head(ss.todo)[2])
        sc == total_score(ss.counts.c, ss.counts.t)
    IN IF ss.found = {}
       THEN SummaryRow(p, lo, ss.counts.c, ss.counts.t, sc, s)
       ELSE update_summary(CHOOSE r \in ss.found : TRUE, lo,
                           ss.counts.c, ss.counts.t, sc)

\* Another transaction holds an uncommitted write of the same key: the
\* statement waits for it.
LockedByOther(s, r) ==
    \E o \in Sessions \ {s} : pk_taken(sess[o].ins \cup sess[o].upd, r)

\* await self.session.flush() (and refresh): the INSERT or UPDATE runs.  An
\* INSERT of a key that another transaction committed since the lookup
\* violates the primary key.
WritePair(s) ==
    /\ sess[s].pc = "write"
    /\ ~LockedByOther(s, RowToFlush(s))
    /\ LET ss == sess[s]
           r == RowToFlush(s)
           conflict == ss.found = {} /\ pk_taken(summaries, r)
       IN \E dbok \in BOOLEAN :
            sess' = [sess EXCEPT ![s] =
              IF dbok /\ ~conflict
              THEN PairDone([ss EXCEPT
                       !.ins = IF ss.found = {} THEN @ \cup {r}
                               ELSE IF ss.found \subseteq @ THEN (@ \ ss.found) \cup {r}
                               ELSE @,
                       !.upd = IF ss.found # {} /\ ~(ss.found \subseteq ss.ins)
                               THEN {u \in @ : pk(u) # pk(r)} \cup {r}
                               ELSE @], TRUE)
              ELSE PairDone([ss EXCEPT !.txn = "inactive",
                                       !.ins = {}, !.upd = {}], FALSE)]
    /\ UNCHANGED <<ledger, summaries, last, heat, reply>>
    /\ UNCHANGED <<notion, people>>
    /\ UNCHANGED cacheVars

\* await self.session.commit(); return count.  A single aggregation that
\* raised never reaches the commit of its caller.
Commit(s) ==
    /\ sess[s].pc = "commit"
    /\ LET ss == sess[s]
           raised == ss.txn = "inactive" \/ (ss.kind = "single" /\ ss.bad # {})
           written == ss.txn = "active" /\ ~raised
       IN /\ summaries' =
                IF written
                THEN {r \in summaries : ~pk_taken(ss.upd, r)} \cup ss.upd \cup ss.ins
                ELSE summaries
          /\ sess' = [sess EXCEPT ![s] =
                [ss EXCEPT !.pc = "done", !.ins = {}, !.upd = {},
                           !.result = IF raised THEN "raised"
                                      ELSE IF written THEN "committed"
                                      ELSE "rolled back"]]
    /\ UNCHANGED <<ledger, last, heat, reply>>
    /\ UNCHANGED <<notion, people>>
    /\ UNCHANGED cacheVars

NextBatch ==
    \E s \in Sessions :
        \/ BeginBulk(s)
        \/ BeginSingle(s)
        \/ ReadPair(s)
        \/ WritePair(s)
        \/ Commit(s)

SpecBatch == InitBatch /\ [][NextBatch]_vars

\* ---------------------------------------------------------------- heatmap
\* date.today(); the summary rows lie on the days 1..Today.
Today == MaxWindow
HeatDays == 1..Today
NoSummary == -1

\* The summary table: for ann any rows (one per day at most, as the
\* aggregation leaves them) with any scores; bob has the highest score, on
\* the last day.
HeatRow(p, d, sc) == SummaryRow(p, At(d, time_min), sc, 0, sc, "-")
HeatTable(f) ==
    {HeatRow("ann", d, f[d]) : d \in {x \in HeatDays : f[x] # NoSummary}}
        \cup {HeatRow("bob", Today, MaxScore + 1)}

InitHeat ==
    /\ CacheIdle
    /\ ledger = {}
    /\ \E f \in [HeatDays -> NoSummary..MaxScore] : summaries = HeatTable(f)
    /\ last = NoCall
    /\ sess = [s \in Sessions |-> NoSession]
    /\ heat = NoHeat
    /\ reply = NoReply
    /\ notion = NoSource
    /\ people = {}

\* Variant: the window starts one day early.
heat_start_OneEarly(today, days) == today - days

\* start_date = end_date - timedelta(days=days - 1)
heat_start(today, days) == today - (days - 1)

\* get_summaries_for_person: person_id == ..., date >= start_date,
\* date <= end_date (the dates bound as midnight timestamps).
get_summaries_for_person(S, p, first, final) ==
    {r \in S : /\ r.person = p
               /\ Leq(At(first, time_min), r.date)
               /\ Leq(r.date, At(final, time_min))}

\* activity_map: date -> total_activity_score; of two rows of one day the
\* later one (the rows come ordered by date) wins.
activity_map(R) ==
    [d \in {func_date(r.date) : r \in R} |->
        LET same == {r \in R : func_date(r.date) = d}
            r == CHOOSE x \in same : \A y \in same : Leq(y.date, x.date)
        IN r.total_activity_score]

\* max(activity_map.values()) if activity_map else 1
max_activity(m) ==
    IF DOMAIN m = {} THEN 1
    ELSE CHOOSE v \in {m[d] : d \in DOMAIN m} : \A d \in DOMAIN m : m[d] <= v

\* Variant: the thresholds are exclusive.
level_Exclusive(c, m) ==
    IF c = 0 THEN 0
    ELSE IF 4 * c > 3 * m THEN 4
    ELSE IF 2 * c > m THEN 3
    ELSE IF 4 * c > m THEN 2
    ELSE 1

\* The level of a day: count >= max * 0.75, >= max * 0.5, >= max * 0.25
\* (exact in floating point for the counts here), written with integers.
level(c, m) ==
    IF c = 0 THEN 0
    ELSE IF 4 * c >= 3 * m THEN 4
    ELSE IF 2 * c >= m THEN 3
    ELSE IF 4 * c >= m THEN 2
    ELSE 1

get_heatmap(S, p, days, today) ==
    LET first == heat_start(today, days)
        m == activity_map(get_summaries_for_person(S, p, first, today))
        top == max_activity(m)
    IN [person |-> p, days |-> days, today |-> today, max_activity |-> top,
        data |-> [i \in 1..day_count(first, today) |->
                    LET d == first + (i - 1)
                        c == IF d \in DOMAIN m THEN m[d] ELSE 0
                    IN [date |-> d, count |-> c, level |-> level(c, top)]]]

\* GET /activities/person/{person_id}/heatmap?days=N, 1 <= N.  The request
\* only reads, so one request is followed per table.
GetHeatmap(p, days) ==
    /\ heat = NoHeat
    /\ heat' = get_heatmap(summaries, p, days, Today)
    /\ UNCHANGED <<ledger, summaries, last, sess, reply>>
    /\ UNCHANGED <<notion, people>>
    /\ UNCHANGED cacheVars

NextHeat == \E days \in 1..MaxWindow : GetHeatmap("ann", days)

SpecHeat == InitHeat /\ [][NextHeat]_vars

\* ---------------------------------------------------------------- streaks
MaxStreakDays == 8
StreakDays == 1..MaxStreakDays
NoDate == 0

\* The summary table of a streak request: for ann at most one row per day,
\* with score 0 or 1; bob has a row with a score on the last day.
StreakTable(f) ==
    {HeatRow("ann", d, f[d]) : d \in {x \in StreakDays : f[x] # NoSummary}}
        \cup {HeatRow("bob", MaxStreakDays, 1)}

InitStreak ==
    /\ CacheIdle
    /\ ledger = {}
    /\ \E f \in [StreakDays -> NoSummary..1] : summaries = StreakTable(f)
    /\ last = NoCall
    /\ sess = [s \in Sessions |-> NoSession]
    /\ heat = NoHeat
    /\ reply = NoReply
    /\ notion = NoSource
    /\ people = {}

\* order_by(ActivitySummary.date) of a set of days.
RECURSIVE Ascending(_)
Ascending(D) ==
    IF D = {} THEN <<>>
    ELSE LET m == CHOOSE x \in D : \A y \in D : x <= y
         IN <<m>> \o Ascending(D \ {m})

\* The dates of the person's rows with total_activity_score > 0, ordered by
\* date.
activity_dates(S, p) ==
    Ascending({func_date(r.date) :
                  r \in {x \in S : x.person = p /\ x.total_activity_score > 0}})

\* Variant: a run as long as the longest so far replaces it.
take_longest_LastWins(st, e) ==
    IF st.temp >= st.longest
    THEN [st EXCEPT !.longest = st.temp, !.start = st.temp_start, !.end = e]
    ELSE st

\* if temp_streak > longest_streak: take the run that ended at day e.
take_longest(st, e) ==
    IF st.temp > st.longest
    THEN [st EXCEPT !.longest = st.temp, !.start = st.temp_start, !.end = e]
    ELSE st

\* for i in range(1, len(activity_dates)), with i counted from 2 here.
RECURSIVE streak_walk(_, _, _)
streak_walk(dates, i, st) ==
    IF i > Len(dates) THEN st
    ELSE IF dates[i] - dates[i - 1] = 1
         THEN streak_walk(dates, i + 1, [st EXCEPT !.temp = @ + 1])
         ELSE streak_walk(dates, i + 1,
                  [take_longest(st, dates[i - 1])
                      EXCEPT !.temp = 1, !.temp_start = dates[i]])

\* Variant: the run that is open when the walk ends is not considered.
final_streak_Skipped(st, dates) == st

\* "Check final streak".
final_streak(st, dates) == take_longest(st, dates[Len(dates)])

\* Variant: only an active day of today keeps the streak alive.
streak_is_active_TodayOnly(days_since_last) == days_since_last <= 0

\* if days_since_last <= 1
streak_is_active(days_since_last) == days_since_last <= 1

\* "Count backwards": for i in range(len(activity_dates) - 2, -1, -1).
RECURSIVE count_backwards(_, _, _)
count_backwards(dates, i, cur) ==
    IF i < 1 THEN cur
    ELSE IF dates[i + 1] - dates[i] = 1
         THEN count_backwards(dates, i - 1,
                  [n |-> cur.n + 1, start |-> dates[i]])
         ELSE cur

calculate_streak(S, p, today) ==
    LET dates == activity_dates(S, p)
    IN IF dates = <<>>
       THEN [current_streak |-> 0, longest_streak |-> 0,
             current_streak_start |-> NoDate, longest_streak_start |-> NoDate,
             longest_streak_end |-> NoDate]
       ELSE LET st0 == [temp |-> 1, temp_start |-> dates[1], longest |-> 0,
                        start |-> NoDate, end |-> NoDate]
                st == final_streak(streak_walk(dates, 2, st0), dates)
                last_activity == dates[Len(dates)]
                cur == IF streak_is_active(today - last_activity)
                       THEN count_backwards(dates, Len(dates) - 1,
                                [n |-> 1, start |-> last_activity])
                       ELSE [n |-> 0, start |-> NoDate]
            IN [current_streak |-> cur.n, longest_streak |-> st.longest,
                current_streak_start |-> cur.start,
                longest_streak_start |-> st.start,
                longest_streak_end |-> st.end]

\* GET /activities/person/{person_id}/streak on the day `today`.
GetStreak(p, today) ==
    /\ reply = NoReply
    /\ reply' = [kind |-> "streak", person |-> p, today |-> today,
                 info |-> calculate_streak(summaries, p, today)]
    /\ UNCHANGED <<ledger, summaries, last, sess, heat>>
    /\ UNCHANGED <<notion, people>>
    /\ UNCHANGED cacheVars

NextStreak == \E today \in StreakDays : GetStreak("ann", today)

SpecStreak == InitStreak /\ [][NextStreak]_vars

\* ---------------------------------------------------------------- periods
PeriodTypes == {"daily", "weekly", "monthly", "yearly", "all_time"}

\* The calendar of the period requests: day 1 is Saturday 2026-01-31, so
\* day 3 is a Monday and day 2 the first of February; date.today() is
\* Tuesday 2026-02-03.
PeriodToday == 4
weekday(d) == (d + 4) % 7
day_of_month(d) == IF d < 2 THEN d + 30 ELSE d - 1
day_of_year(d) == d + 30
\* date(2020, 1, 1)
AllTimeStart == -2221

\* _calculate_period_range: <<start, end>> of a period type.
calculate_period_range(period, today) ==
    CASE period = "daily" -> <<today, today>>
      [] period = "weekly" -> <<today - weekday(today), today>>
      [] period = "monthly" -> <<today - (day_of_month(today) - 1), today>>
      [] period = "yearly" -> <<today - (day_of_year(today) - 1), today>>
      [] OTHER -> <<AllTimeStart, today>>

\* ------------------------------------------------------------ leaderboard
MaxLimit == 3
Players == {"ann", "bob", "cy"}
ScoreChoices == {NoSummary, 0, 3, 7}

\* A summary row of score k: k \div 3 tasks and the rest conversations.
LbRow(p, d, k) ==
    SummaryRow(p, At(d, time_min), k - 2 * (k \div 3), k \div 3, k, "-")

\* The summary table of the period requests: any rows of the three persons
\* on Monday and Tuesday, and for ann possibly one on the Sunday before.
LbTable(f, early) ==
    {LbRow(pd[1], pd[2], f[pd]) : pd \in {x \in DOMAIN f : f[x] # NoSummary}}
        \cup {LbRow("ann", PeriodToday - 2, k) : k \in early}

InitLeaderboard ==
    /\ CacheIdle
    /\ ledger = {}
    /\ \E f \in [Players \X {PeriodToday - 1, PeriodToday} -> ScoreChoices] :
          \E early \in {{}, {3}} : summaries = LbTable(f, early)
    /\ last = NoCall
    /\ sess = [s \in Sessions |-> NoSession]
    /\ heat = NoHeat
    /\ reply = NoReply
    /\ notion = NoSource
    /\ people = {}

\* func.sum(column) over a set of rows.
RECURSIVE SumOf(_, _)
SumOf(R, col) ==
    IF R = {} THEN 0
    ELSE LET r == CHOOSE x \in R : TRUE IN r[col] + SumOf(R \ {r}, col)

\* where date >= start_date and date <= end_date (the dates bound as
\* midnight timestamps), joined with the person, grouped by person.
leaderboard_groups(S, first, final) ==
    LET R == {r \in S : /\ Leq(At(first, time_min), r.date)
                        /\ Leq(r.date, At(final, time_min))}
    IN {[person_id |-> p, username |-> p,
         conversations_created |->
             SumOf({r \in R : r.person = p}, "conversations_created"),
         tasks_completed |->
             SumOf({r \in R : r.person = p}, "tasks_completed"),
         total_activity_score |->
             SumOf({r \in R : r.person = p}, "total_activity_score")] :
        p \in {r.person : r \in R}}

\* Variant: ascending order.
score_order_Ascending(a, b) == a.total_activity_score <= b.total_activity_score

\* order_by(desc("total_score")): a may stand before b.
score_order(a, b) == a.total_activity_score >= b.total_activity_score

\* The orders in which the database may return the groups: descending by
\* total score, rows of equal score in any order (the statement names no
\* further sort key).
ordered_groups(G) ==
    {q \in [1..Cardinality(G) -> G] :
        /\ \A i, j \in DOMAIN q : i # j => q[i] # q[j]
        /\ \A i, j \in DOMAIN q : i < j => score_order(q[i], q[j])}

\* .limit(limit), then enumerate(rows, start=1).
ranked(q, limit) ==
    [i \in 1..Min(limit, Len(q)) |->
        [rank |-> i, person_id |-> q[i].person_id, username |-> q[i].username,
         conversations_created |-> q[i].conversations_created,
         tasks_completed |-> q[i].tasks_completed,
         total_activity_score |-> q[i].total_activity_score]]

get_leaderboard(S, first, final, limit) ==
    {ranked(q, limit) : q \in ordered_groups(leaderboard_groups(S, first, final))}

\* GET /activities/leaderboard?period=..&limit=.., 1 <= limit; the same
\* request may be sent a second time.
GetLeaderboard(period, limit) ==
    /\ \/ reply = NoReply
       \/ /\ reply.kind = "leaderboard" /\ reply.call = 1
          /\ reply.period = period /\ reply.limit = limit
    /\ LET range == calculate_period_range(period, PeriodToday)
       IN \E entries \in get_leaderboard(summaries, range[1], range[2], limit) :
             reply' = [kind |-> "leaderboard", period |-> period,
                       limit |-> limit, start_date |-> range[1],
                       end_date |-> range[2], entries |-> entries,
                       call |-> IF reply = NoReply THEN 1 ELSE 2]
    /\ UNCHANGED <<ledger, summaries, last, sess, heat>>
    /\ UNCHANGED <<notion, people>>
    /\ UNCHANGED cacheVars

NextLeaderboard ==
    \E period \in PeriodTypes : \E limit \in 1..MaxLimit :
        GetLeaderboard(period, limit)

SpecLeaderboard == InitLeaderboard /\ [][NextLeaderboard]_vars

\* --------------------------------------------------------------- timeline
MaxSkip == 2
NoBound == [day |-> 0, time |-> 0]
ActivityTypes == {"none", "conversation", "task", "all"}

\* Any ledger of at most MaxGroups groups; the timeline is then requested.
InitTimeline ==
    /\ CacheIdle
    /\ \E X \in SlotSetsUpTo(MaxGroups) :
       \E f \in [X -> 1..MaxPerGroup] : ledger = LedgerOf(X, f)
    /\ summaries = {}
    /\ last = NoCall
    /\ sess = [s \in Sessions |-> NoSession]
    /\ heat = NoHeat
    /\ reply = NoReply
    /\ notion = NoSource
    /\ people = {}

\* if not activity_type or activity_type in (k, "all")
type_selected(activity_type, k) == activity_type \in {"none", k, "all"}

\* The rows the two queries return: person_id == ..., and, when the bound
\* is given, created_at / completed_at >= start_date and <= end_date.
selected_rows(L, p, lo, hi, activity_type) ==
    {g \in L : /\ g.person = p
               /\ type_selected(activity_type, g.kind)
               /\ lo # NoBound => Leq(lo, g.at)
               /\ hi # NoBound => Leq(g.at, hi)}

\* conv.metadata / task.metadata: the attribute `metadata` of a mapped
\* object is the MetaData registry of the declarative base (the JSON column
\* is notion_metadata), not a dict.
metadata_attribute(g) == "MetaData"

\* The dict appended for a row.
activity_dict(g) ==
    [activity_type |-> g.kind, occurred_at |-> g.at, person_id |-> g.person,
     metadata |-> metadata_attribute(g)]

\* activities.sort(key=occurred_at, reverse=True) of the list that holds
\* the conversations first and then the tasks: latest first, and of equal
\* times the conversations first (the sort is stable).
before(g, h) ==
    \/ ~Leq(g.at, h.at)
    \/ g.at = h.at /\ (g.kind = "conversation" \/ h.kind = "task")
RECURSIVE sorted_activities(_)
sorted_activities(G) ==
    IF G = {} THEN <<>>
    ELSE LET g == CHOOSE x \in G : \A y \in G : before(x, y)
         IN [i \in 1..g.n |-> activity_dict(g)] \o sorted_activities(G \ {g})

\* activities[skip : skip + limit]
paginate(a, skip, limit) == SubSeq(a, skip + 1, Min(skip + limit, Len(a)))

\* get_person_activities: <<paginated, total>>.
get_person_activities(L, p, lo, hi, activity_type, skip, limit) ==
    LET a == sorted_activities(selected_rows(L, p, lo, hi, activity_type))
    IN <<paginate(a, skip, limit), Len(a)>>

\* ActivityItem(**activity): metadata is Optional[dict].
valid_item(a) == a.metadata \in {"None", "dict"}

\* get_person_timeline, and the endpoint around it: a validation error of
\* an item is answered with status 500.
get_person_timeline(L, p, lo, hi, activity_type, skip, limit) ==
    LET res == get_person_activities(L, p, lo, hi, activity_type, skip, limit)
        req == [kind |-> "timeline", person |-> p, start_date |-> lo,
                end_date |-> hi, activity_type |-> activity_type,
                skip |-> skip, limit |-> limit]
    IN IF \A i \in DOMAIN res[1] : valid_item(res[1][i])
       THEN req @@ [status |-> 200, total |-> res[2], activities |-> res[1],
                    has_more |-> (skip + limit) < res[2]]
       ELSE req @@ [status |-> 500]

\* GET /activities/person/{person_id}?start_date=..&end_date=..
\*     &activity_type=..&skip=..&limit=.., skip >= 0, limit >= 1.
GetTimeline(p, lo, hi, activity_type, skip, limit) ==
    /\ reply = NoReply
    /\ reply' = get_person_timeline(ledger, p, lo, hi, activity_type, skip,
                                    limit)
    /\ UNCHANGED <<ledger, summaries, last, sess, heat>>
    /\ UNCHANGED <<notion, people>>
    /\ UNCHANGED cacheVars

NextTimeline ==
    \E lo \in {NoBound, At(1, time_max), At(2, time_min)} :
    \E hi \in {NoBound, At(1, time_max), At(2, time_min)} :
    \E activity_type \in ActivityTypes :
    \E skip \in 0..MaxSkip : \E limit \in 1..MaxLimit :
        GetTimeline("ann", lo, hi, activity_type, skip, limit)

SpecTimeline == InitTimeline /\ [][NextTimeline]_vars

\* ----------------------------------------------------------- period stats
\* The summary table of the stats requests: any rows of ann on the four
\* days up to today (one per day at most), and a row of bob of today.
StatsTable(f) ==
    {LbRow("ann", d, f[d]) : d \in {x \in DOMAIN f : f[x] # NoSummary}}
        \cup {LbRow("bob", PeriodToday, 7)}

InitStats ==
    /\ CacheIdle
    /\ ledger = {}
    /\ \E f \in [1..PeriodToday -> ScoreChoices] : summaries = StatsTable(f)
    /\ last = NoCall
    /\ sess = [s \in Sessions |-> NoSession]
    /\ heat = NoHeat
    /\ reply = NoReply
    /\ notion = NoSource
    /\ people = {}

\* Variant: the period is used only when both bounds are missing.
use_period_BothMissing(start_date, end_date) ==
    start_date = NoDate /\ end_date = NoDate

\* if not start_date or not end_date
use_period(start_date, end_date) == start_date = NoDate \/ end_date = NoDate

\* DailyActivityStats of the rows, in the order of the query (by date).
daily_breakdown(R) ==
    LET days == Ascending({func_date(r.date) : r \in R})
    IN [i \in 1..Len(days) |->
          LET s == CHOOSE r \in R : func_date(r.date) = days[i]
          IN [date |-> days[i],
              conversations_created |-> s.conversations_created,
              tasks_completed |-> s.tasks_completed,
              total_activity_score |-> s.total_activity_score]]

get_person_stats(S, p, period, start_date, end_date, today) ==
    LET range == IF use_period(start_date, end_date)
                 THEN calculate_period_range(period, today)
                 ELSE <<start_date, end_date>>
        R == get_summaries_for_person(S, p, range[1], range[2])
    IN [kind |-> "stats", person |-> p, period |-> period,
        given |-> <<start_date, end_date>>,
        start_date |-> range[1], end_date |-> range[2],
        total_conversations |-> SumOf(R, "conversations_created"),
        total_tasks_completed |-> SumOf(R, "tasks_completed"),
        total_activity_score |-> SumOf(R, "total_activity_score"),
        daily_breakdown |-> daily_breakdown(R)]

\* GET /activities/person/{person_id}/stats?period=..&start_date=..
\*     &end_date=.. (NoDate: the parameter is not given).
GetStats(p, period, start_date, end_date) ==
    /\ reply = NoReply
    /\ reply' = get_person_stats(summaries, p, period, start_date, end_date,
                                 PeriodToday)
    /\ UNCHANGED <<ledger, summaries, last, sess, heat>>
    /\ UNCHANGED <<notion, people>>
    /\ UNCHANGED cacheVars

NextStats ==
    \E period \in PeriodTypes :
    \E start_date \in {NoDate} \cup 1..PeriodToday :
    \E end_date \in {NoDate} \cup 1..PeriodToday :
        GetStats("ann", period, start_date, end_date)

SpecStats == InitStats /\ [][NextStats]_vars

\* ------------------------------------------------------- syncs of a source
MaxChanges == 1

\* The provider's databases: at most one conversation page X (with the
\* attendees ann and bob, or without attendees; its title names ann or
\* nobody; created by bob) and at most one Kanban page T (Done or not,
\* assigned to ann, or to bob and ann), dated on the first or the last day.
PageDays == {1, NDays}
ConvPages ==
    {ConvPage("X", d, a, n, "bob") :
        d \in PageDays, a \in {<<>>, <<"ann", "bob">>}, n \in {"-", "ann"}}
TaskPages ==
    {TaskPage("T", st, d, a) :
        st \in {"Done", "In progress"}, d \in PageDays,
        a \in {<<"ann">>, <<"bob", "ann">>}}
Sources ==
    {[convs |-> c, tasks |-> t] :
        c \in {<<>>} \cup {<<x>> : x \in ConvPages},
        t \in {<<>>} \cup {<<x>> : x \in TaskPages}}

\* Nothing is synced yet.
InitSync ==
    /\ CacheIdle
    /\ ledger = {}
    /\ summaries = {}
    /\ last = NoCall
    /\ sess = [s \in Sessions |-> NoSession]
    /\ heat = NoHeat
    /\ reply = NoReply
    /\ \E src \in Sources : notion = src @@ [rev |-> 0]
    /\ people = {}

\* One of the provider's databases is edited: its page changes, appears or
\* disappears.  What the last sync reported is no longer about this source.
ChangeSource ==
    /\ notion.rev < MaxChanges
    /\ \E src \in Sources :
          /\ src # [convs |-> notion.convs, tasks |-> notion.tasks]
          /\ src.convs = notion.convs \/ src.tasks = notion.tasks
          /\ notion' = src @@ [rev |-> notion.rev + 1]
    /\ reply' = NoReply
    /\ UNCHANGED <<ledger, summaries, last, sess, heat, people>>
    /\ UNCHANGED cacheVars

\* POST /activities/sync (not in the background): sync_all, answered with
\* success = (no errors) and the statistics.
SyncActivities ==
    /\ \E failc, failt, faildb \in BOOLEAN :
          LET r == sync_all(notion, people, ledger, failc, failt, faildb)
          IN /\ people' = r.people
             /\ ledger' = r.ledger
             /\ reply' = [kind |-> "sync", success |-> r.errors = {},
                          conversations_synced |-> r.conversations_synced,
                          tasks_synced |-> r.tasks_synced,
                          persons_created |-> r.persons_created,
                          errors |-> r.errors]
    /\ UNCHANGED <<summaries, last, sess, heat, notion>>
    /\ UNCHANGED cacheVars

NextSync == ChangeSource \/ SyncActivities

SpecSync == InitSync /\ [][NextSync]_vars

\* ------------------------------------------- the scheduled activities task
\* Nothing is synced yet and the beat schedule has queued one
\* update_activities_cache task.
InitActivities ==
    /\ rows = [c \in CacheTypes |-> {}]
    /\ meta = [c \in CacheTypes |-> NoRow]
    /\ members = {}
    /\ task = [w \in Workers |->
                 IF w = "w1" THEN NewTask("activities") ELSE Idle]
    /\ ledger = {}
    /\ summaries = {}
    /\ last = NoCall
    /\ sess = [s \in Sessions |-> NoSession]
    /\ heat = NoHeat
    /\ reply = NoReply
    /\ \E src \in Sources : notion = src @@ [rev |-> 0]
    /\ people = {}

NextActivities ==
    \E w \in Workers :
        \/ StartActivities(w)
        \/ SyncAndAggregate(w)
        \/ Redeliver(w)

SpecActivities == InitActivities /\ [][NextActivities]_vars

\* ------------------------------------------------------------- properties
Alone(w) == \A v \in Workers \ {w} : task[v].pc = "idle"
\* The step in which the task function of w returns or raises.
Exits(w) == /\ task[w].pc \notin {"done", "retry_wait", "idle"}
            /\ task'[w].pc \in {"done", "retry_wait"}
\* The rows the refresh of w is about to publish.
NewRows(w) == RowsOf(cached_list(task[w].ctype, task[w].snap))

\* C1: two refreshes of the same cache type never overlap: at most one task
\* of a type is between its "set is_updating = true" commit and its exit.
C1_NoOverlappingRefresh ==
    \A v, w \in Workers :
        (v # w /\ Refreshing(v) /\ Refreshing(w)) => task[v].ctype # task[w].ctype

C3_ReadersSeeOldOrNew ==
    [][\A w \in Workers :
          (/\ Refreshing(w) /\ Alone(w)
           /\ task'[w] # task[w]
           /\ get_all_cached(task[w].ctype) = task[w].before
           /\ rows'[task[w].ctype] # rows[task[w].ctype])
          => rows'[task[w].ctype] = NewRows(w)]_vars

\* C4: when a refresh fails after it set is_updating = true (and no other
\* refresh of the type runs), the rows readers get are the rows from before
\* that refresh started.
C4_FailedRefreshKeepsSnapshot ==
    [][\A w \in Workers :
          (/\ Refreshing(w) /\ Alone(w)
           /\ task[w].pc \in {"fetch", "clear", "insert"}
           /\ task'[w].pc = "except")
          => rows'[task[w].ctype] = task[w].before]_vars

\* C5: when a projects refresh with source snapshot S succeeds, the cached
\* project ids are exactly the ids of S and total_records is the number of
\* distinct ids of S.
C5_SuccessfulRefreshMirrorsSnapshot ==
    [][\A w \in Workers :
          (/\ task[w].ctype = "projects"
           /\ task[w].pc = "meta"
           /\ task'[w].result = "success")
          => (/\ {r.id : r \in rows'["projects"]} = IdsOf(task[w].snap)
              /\ meta'["projects"].total_records
                     = Cardinality(IdsOf(task[w].snap)))]_vars

\* C6: a refresh task that set is_updating = true has set it back to false
\* when the task exits, on the success path and on every failure path.
C6_FlagClearedAtExit ==
    [][\A w \in Workers :
          (Refreshing(w) /\ Exits(w)) => ~meta'[task[w].ctype].is_updating]_vars

\* C7: when a refresh raises during fetch or replace, the metadata row ends
\* with error_message = the exception message and is_updating = false, and
\* the task leaves through self.retry (a retry, or FAILURE when the retries
\* are used up).
C7_FailureRecordedAndRetried ==
    [][\A w \in Workers :
          (Refreshing(w) /\ task[w].pc = "except" /\ Exits(w))
          => (/\ meta'[task[w].ctype].error_message = task[w].exc
              /\ ~meta'[task[w].ctype].is_updating
              /\ task'[w].result \in {"retry", "failure"})]_vars

\* C8: the metadata write of a successful refresh leaves is_updating = false,
\* error_message = null (also after an earlier recorded error),
\* total_records = the number of rows inserted and last_updated = the time
\* of that write.
C8_SuccessMetadata ==
    [][\A w \in Workers :
          (IsCache(w) /\ task[w].pc = "meta" /\ task'[w].result = "success")
          => LET m == meta'[task[w].ctype]
             IN /\ m.exists
                /\ ~m.is_updating
                /\ m.error_message = NoError
                /\ m.total_records = Cardinality(NewRows(w))
                /\ m.last_updated = Stamp(w, "end")]_vars

C8_Witness ==
    \E w \in Workers :
        /\ IsCache(w)
        /\ task[w].result = "success"
        /\ task[w].retries > 0
        /\ meta[task[w].ctype].total_records > 0
        /\ meta[task[w].ctype].error_message = NoError

\* C9: two activities refreshes never run at the same time.
C9_ActivitiesNeverOverlap ==
    \A v, w \in Workers :
        (v # w /\ task[v].ctype = "activities" /\ task[w].ctype = "activities")
        => ~(task[v].pc = "sync" /\ task[w].pc = "sync")

\* C10: a task is executed at most 4 times; the retry after the k-th failure
\* (k = 0, 1, 2) is scheduled 60 * 2^k seconds later; a retry starts again
\* at the is_updating check with nothing kept from the failed run; after
\* the last failure the task makes no further step.
C10_RetryPolicy ==
    [][\A w \in Workers :
          /\ task'[w].runs <= 4
          /\ task'[w].pc = "retry_wait"
                => (/\ task'[w].retries \in 1..3
                    /\ task'[w].countdown = 60 * (2 ^ (task'[w].retries - 1))
                    /\ task'[w].runs = task'[w].retries)
          /\ (task[w].pc = "retry_wait" /\ task'[w] # task[w])
                => (/\ task'[w] = [task[w] EXCEPT !.pc = "start"]
                    /\ ~task[w].started /\ task[w].snap = <<>>)
          /\ (task[w].pc = "except" /\ task'[w].result = "failure")
                => task[w].retries = 3
          /\ task[w].pc = "done" => task'[w] = task[w]]_vars

C10_Witness ==
    \E w \in Workers :
        /\ task[w].pc = "done"
        /\ task[w].result = "failure"
        /\ task[w].runs = 4
        /\ task[w].countdown = 240

\* C11: once a worker has died after committing is_updating = true and
\* before any later metadata write, is_updating of that cache type stays
\* true in every later state and every later refresh of the type returns
\* "skipped": nothing resets the stuck flag.
StuckTypes ==
    {t \in CacheTypes :
        \E w \in Workers : /\ task[w].ctype = t
                            /\ task[w].pc = "dead"
                            /\ task[w].result = "died_holding"}

C12_TypesAreIndependent ==
    [][\A w \in Workers :
          task'[w] # task[w] =>
            LET t == task[w].ctype
            IN /\ \A c \in CacheTypes \ {t} :
                     meta'[c] = meta[c] /\ rows'[c] = rows[c]
               /\ t # "todos" => members' = members
               /\ (IsCache(w) /\ task[w].pc = "start")
                     => (task'[w].result = "skipped"
                           <=> (meta[t].exists /\ meta[t].is_updating))
               /\ (IsCache(w) /\ task'[w].result = "success")
                     => (/\ rows'[t] = NewRows(w)
                         /\ meta'[t] = update_cache_metadata(
                                meta[t], Stamp(w, "end"),
                                Cardinality(NewRows(w)), Elapsed, NoError))]_vars

C12_Witness ==
    \E v, w \in Workers :
        /\ IsCache(w) /\ task[w].result = "success"
        /\ rows[task[w].ctype] # {}
        /\ Refreshing(v)
        /\ task[v].ctype # task[w].ctype
        /\ task[v].pc = "insert"

\* The events of person p on calendar day d, by kind.
EventsOn(k, p, d) ==
    SumN({g \in ledger : g.kind = k /\ g.person = p /\ g.at.day = d})

\* C13: aggregate(P, D) called twice in a row, the ledger unchanged, returns
\* the same conversations_created, tasks_completed and
\* total_activity_score both times, and the second call adds no row.
C13_AggregateIdempotent ==
    [][(last.person = last'.person /\ last.day = last'.day)
          => (/\ last'.conversations_created = last.conversations_created
              /\ last'.tasks_completed = last.tasks_completed
              /\ last'.total_activity_score = last.total_activity_score
              /\ Cardinality(summaries') = Cardinality(summaries))]_vars

C13_Witness ==
    /\ last.repeat
    /\ last.conversations_created > 0
    /\ last.tasks_completed > 0
    /\ Cardinality(summaries) = 1

\* C14: aggregate(P, D) writes conversations_created = the number of P's
\* conversation events on day D, tasks_completed = the number of P's task
\* completions on day D and total_activity_score = conversations_created
\* + 2 * tasks_completed; events of other persons or days do not count.
C14_AggregateCounts ==
    /\ \A r \in summaries :
          /\ r.conversations_created = EventsOn("conversation", r.person, r.date.day)
          /\ r.tasks_completed = EventsOn("task", r.person, r.date.day)
          /\ r.total_activity_score =
                r.conversations_created + 2 * r.tasks_completed
    /\ last # NoCall =>
          /\ last.conversations_created = EventsOn("conversation", last.person, last.day)
          /\ last.tasks_completed = EventsOn("task", last.person, last.day)
          /\ last.total_activity_score =
                last.conversations_created + 2 * last.tasks_completed

\* 3 conversations and 2 completed tasks give 7.
C14_Witness ==
    /\ last.conversations_created = 3
    /\ last.tasks_completed = 2
    /\ last.total_activity_score = 7

\* The rows of the summary table for person p and calendar day d.
RowsFor(S, p, d) == {r \in S : r.person = p /\ r.date.day = d}
\* The row an aggregation of (p, d) is to leave, whoever inserted it.
Unsigned(S) == {[r EXCEPT !.by = "-"] : r \in S}
ExpectedRow(p, d) ==
    SummaryRow(p, At(d, time_min),
               EventsOn("conversation", p, d), EventsOn("task", p, d),
               EventsOn("conversation", p, d) + 2 * EventsOn("task", p, d), "-")
\* The batch of session s has ended and its transaction was committed.
Committed(s) == sess[s].pc = "done" /\ sess[s].result = "committed"
\* The step in which the batch of session s ends.
Ends(s) == sess[s].pc = "commit" /\ sess'[s].pc = "done"

\* C15: whatever batches ran, one after another or concurrently, over
\* repeated and overlapping day ranges, the summary table holds at most one
\* row for each (person, calendar day) and exactly one for each pair whose
\* aggregation was committed; the row holds the counts of the last run, not
\* a sum over the runs.
C15_OneRowPerPersonDay ==
    /\ \A p \in Persons, d \in Days : Cardinality(RowsFor(summaries, p, d)) <= 1
    /\ \A s \in Sessions :
          Committed(s) =>
            \A pd \in sess[s].ok : Cardinality(RowsFor(summaries, pd[1], pd[2])) = 1
    /\ \A r \in summaries :
          [r EXCEPT !.by = "-"] = ExpectedRow(r.person, r.date.day)

C15_Witness ==
    /\ \A s \in Sessions : Committed(s) /\ sess[s].kind = "bulk"
    /\ sess["s1"].first < sess["s1"].final
    /\ sess["s1"].ok \cap sess["s2"].ok # {}
    /\ sess["s1"].ok # sess["s2"].ok
    /\ \E r \in summaries : r.by = "s1" /\ r.total_activity_score > 0
    /\ \E r \in summaries : r.by = "s2"

\* The table that calling aggregate_daily_activities for the pairs of q, one
\* after another, leaves when it starts from table S.
RECURSIVE RunInOrder(_, _)
RunInOrder(S, q) ==
    IF q = <<>> THEN S
    ELSE RunInOrder(aggregate_daily_activities(ledger, S, Head(q)[1], Head(q)[2], "-"),
                    Tail(q))
BatchOf(s) ==
    IF sess[s].kind = "bulk" THEN bulk_pairs(sess[s].first, sess[s].final)
    ELSE <<CHOOSE pd \in sess[s].ok \cup sess[s].bad : TRUE>>

\* C16: two batches over different (person, day) keys that ran in any
\* interleaving, none of their aggregations failing, leave the summary
\* table that running them one after another, in either order, leaves.
C16_DisjointKeysCommute ==
    LET a == "s1"
        b == "s2"
    IN (/\ Committed(a) /\ Committed(b)
        /\ sess[a].bad = {} /\ sess[b].bad = {}
        /\ sess[a].ok # {} /\ sess[b].ok # {}
        /\ sess[a].ok \cap sess[b].ok = {})
       => /\ Unsigned(summaries) = Unsigned(RunInOrder(RunInOrder({}, BatchOf(a)), BatchOf(b)))
          /\ Unsigned(summaries) = Unsigned(RunInOrder(RunInOrder({}, BatchOf(b)), BatchOf(a)))
          /\ Unsigned(summaries) =
                {ExpectedRow(pd[1], pd[2]) : pd \in sess[a].ok \cup sess[b].ok}

\* One batch is committed while the other, on the same day for another
\* person, still holds its flushed row.
C16_Witness ==
    /\ Committed("s1") /\ sess["s1"].bad = {} /\ sess["s1"].ok # {}
    /\ sess["s2"].pc = "commit" /\ sess["s2"].txn = "active"
    /\ sess["s2"].ins # {} /\ sess["s2"].bad = {}
    /\ sess["s1"].ok \cap sess["s2"].ok = {}
    /\ \E x \in sess["s1"].ok, y \in sess["s2"].ok : x[2] = y[2]
    /\ \E r \in summaries : r.total_activity_score > 0

C18_BulkToleratesFailures ==
    [][\A s \in Sessions :
          (Ends(s) /\ sess[s].kind = "bulk" /\ sess[s].bad # {})
          => LET others == PairsOf(bulk_pairs(sess[s].first, sess[s].final))
                             \ sess[s].bad
             IN /\ sess'[s].result # "raised"
                /\ sess'[s].count = Cardinality(others)
                /\ \A pd \in others :
                      Unsigned(RowsFor(summaries', pd[1], pd[2]))
                        = {ExpectedRow(pd[1], pd[2])}]_vars

\* C19: get_heatmap(person, N), N >= 1, returns exactly N points, one for
\* each calendar day from today - (N - 1) to today in ascending order, no
\* day repeated or skipped, whatever summary rows exist; a day without a
\* summary row has count 0.
C19_HeatmapCoversWindow ==
    heat # NoHeat =>
        /\ Len(heat.data) = heat.days
        /\ \A i \in 1..Len(heat.data) :
              /\ heat.data[i].date = heat.today - (heat.days - 1) + (i - 1)
              /\ RowsFor(summaries, heat.person, heat.data[i].date) = {}
                    => heat.data[i].count = 0

C19_Witness ==
    /\ heat.days = 3
    /\ heat.data[1].count = 0 /\ heat.data[2].count > 0 /\ heat.data[3].count = 0
    /\ RowsFor(summaries, heat.person, heat.today) = {}
    /\ RowsFor(summaries, heat.person, heat.today - 3) # {}

\* The largest count of the window.
WindowMax ==
    CHOOSE v \in {heat.data[i].count : i \in 1..Len(heat.data)} :
        \A i \in 1..Len(heat.data) : heat.data[i].count <= v

\* C20: with c the count of a point and m the maximum of the window, the
\* level is 0 if c = 0, 1 if 0 < 4c < m, 2 if m <= 4c < 2m, 3 if
\* 2m <= 4c < 3m and 4 if 4c >= 3m; every level is in 0..4.
C20_HeatmapLevels ==
    heat # NoHeat =>
        \A i \in 1..Len(heat.data) :
            LET c == heat.data[i].count
                m == WindowMax
                l == heat.data[i].level
            IN /\ l \in 0..4
               /\ c = 0 => l = 0
               /\ (0 < 4 * c /\ 4 * c < m) => l = 1
               /\ (c > 0 /\ m <= 4 * c /\ 4 * c < 2 * m) => l = 2
               /\ (c > 0 /\ 2 * m <= 4 * c /\ 4 * c < 3 * m) => l = 3
               /\ (c > 0 /\ 4 * c >= 3 * m) => l = 4

\* Daily counts [0, 1, 5, 10] give levels [0, 1, 3, 4].
C20_Witness ==
    /\ Len(heat.data) = 4
    /\ [i \in 1..4 |-> heat.data[i].count] = <<0, 1, 5, 10>>
    /\ [i \in 1..4 |-> heat.data[i].level] = <<0, 1, 3, 4>>

\* C21: the max_activity of a heatmap is the largest daily score of the
\* window floored at 1: it is never less than 1, also when the rows of the
\* window have score 0.
C21_MaxActivityFloor ==
    heat # NoHeat =>
        /\ heat.max_activity >= 1
        /\ heat.max_activity = IF WindowMax > 1 THEN WindowMax ELSE 1

\* The days on which the person of the reply has a row with a score.
ActiveDays ==
    {func_date(r.date) :
        r \in {x \in summaries :
                 x.person = reply.person /\ x.total_activity_score > 0}}

\* a..b is a run of consecutive active days.
IsRun(a, b) == a <= b /\ \A d \in a..b : d \in ActiveDays

RunLengths ==
    {n \in 1..Cardinality(ActiveDays) :
        \E a \in ActiveDays : IsRun(a, a + n - 1)}

\* C22: longest_streak is the length of the longest run of consecutive
\* active days (score > 0), the last run included, and longest_streak_start
\* and longest_streak_end are the first and the last day of a run of that
\* length; with no active day every output is 0 / null.
C22_LongestStreak ==
    reply.kind = "streak" =>
        LET i == reply.info
        IN IF ActiveDays = {}
           THEN i = [current_streak |-> 0, longest_streak |-> 0,
                     current_streak_start |-> NoDate,
                     longest_streak_start |-> NoDate,
                     longest_streak_end |-> NoDate]
           ELSE /\ i.longest_streak \in RunLengths
                /\ \A n \in RunLengths : n <= i.longest_streak
                /\ IsRun(i.longest_streak_start, i.longest_streak_end)
                /\ i.longest_streak_end - i.longest_streak_start + 1
                      = i.longest_streak

\* The longest run is the last one: days 1-2 and 4-6.
C22_Witness ==
    /\ reply.kind = "streak"
    /\ ActiveDays = {1, 2, 4, 5, 6}
    /\ reply.info.longest_streak = 3
    /\ reply.info.longest_streak_start = 4
    /\ reply.info.longest_streak_end = 6

\* The most recent active day, and the first day of the run that ends there.
LastActive == CHOOSE d \in ActiveDays : \A e \in ActiveDays : e <= d
RunStart(b) == CHOOSE a \in ActiveDays : IsRun(a, b) /\ a - 1 \notin ActiveDays

\* C23: current_streak is non-zero exactly when the most recent active day
\* is today or yesterday; it is then the length of the run of consecutive
\* active days that ends at the most recent active day, with
\* current_streak_start the first day of that run; otherwise it is 0 and
\* current_streak_start is null.  Active days {1, 2, 3, 5, 6, 7, 8} with
\* today = 8 give longest_streak = 4 and current_streak = 4.
C23_CurrentStreak ==
    reply.kind = "streak" =>
        LET i == reply.info
            alive == /\ ActiveDays # {}
                     /\ LastActive \in {reply.today, reply.today - 1}
        IN /\ i.current_streak # 0 <=> alive
           /\ alive => /\ i.current_streak_start = RunStart(LastActive)
                       /\ i.current_streak
                             = LastActive - RunStart(LastActive) + 1
           /\ ~alive => i.current_streak = 0 /\ i.current_streak_start = NoDate
           /\ (ActiveDays = {1, 2, 3, 5, 6, 7, 8} /\ reply.today = 8)
                 => i.longest_streak = 4 /\ i.current_streak = 4

\* The summary rows of person p on the days first..final.
RowsIn(p, first, final) ==
    {r \in summaries : r.person = p /\ func_date(r.date) \in first..final}

\* The persons with at least one summary row on the days first..final.
PersonsIn(first, final) ==
    {r.person : r \in {x \in summaries : func_date(x.date) \in first..final}}

\* C24: get_leaderboard(period, limit) returns, for the persons with at
\* least one summary row in the period's range, the sums of conversations,
\* tasks and score over the range, in descending order of total score, cut
\* to the first `limit` entries, with ranks 1, 2, ..., k in list order.
C24_Leaderboard ==
    reply.kind = "leaderboard" =>
        LET e == reply.entries
            first == reply.start_date
            final == reply.end_date
            P == PersonsIn(first, final)
        IN /\ Len(e) = Min(reply.limit, Cardinality(P))
           /\ \A i \in DOMAIN e :
                 /\ e[i].rank = i
                 /\ e[i].person_id \in P
                 /\ e[i].conversations_created
                       = SumOf(RowsIn(e[i].person_id, first, final),
                               "conversations_created")
                 /\ e[i].tasks_completed
                       = SumOf(RowsIn(e[i].person_id, first, final),
                               "tasks_completed")
                 /\ e[i].total_activity_score
                       = SumOf(RowsIn(e[i].person_id, first, final),
                               "total_activity_score")
           /\ \A i, j \in DOMAIN e :
                 /\ i # j => e[i].person_id # e[j].person_id
                 /\ i < j => e[i].total_activity_score
                                >= e[j].total_activity_score
           /\ \A p \in P \ {e[i].person_id : i \in DOMAIN e} :
                 SumOf(RowsIn(p, first, final), "total_activity_score")
                     <= e[Len(e)].total_activity_score

\* Totals 10, 7, 7 over the week are ranked 1, 2, 3.
C24_Witness ==
    /\ reply.kind = "leaderboard"
    /\ reply.period = "weekly"
    /\ Len(reply.entries) = 3
    /\ [i \in 1..3 |-> reply.entries[i].total_activity_score] = <<10, 7, 7>>
    /\ [i \in 1..3 |-> reply.entries[i].rank] = <<1, 2, 3>>
    /\ reply.entries[1].tasks_completed = 3

\* C25: the order of entries of equal total score is deterministic: two
\* get_leaderboard calls on the same summary table return the tied persons
\* in the same order, with the same ranks and the same cut.
C25_TiesDeterministic ==
    [][(/\ reply.kind = "leaderboard"
        /\ reply'.kind = "leaderboard"
        /\ summaries' = summaries)
          => reply'.entries = reply.entries]_vars

\* The number of events of the ledger that a timeline request selects.
TimelineTotal ==
    SumN({g \in ledger :
            /\ g.person = reply.person
            /\ reply.activity_type \in {"none", "all", g.kind}
            /\ reply.start_date # NoBound => Leq(reply.start_date, g.at)
            /\ reply.end_date # NoBound => Leq(g.at, reply.end_date)})

\* C26: get_timeline(person, range, kind, offset, limit) returns total =
\* the number of the person's events that pass the range filter (bounds
\* inclusive) and the kind filter, items = elements offset .. offset +
\* limit - 1 of those events in descending order of occurrence time (at
\* most limit items, none when offset >= total), and has_more = (offset +
\* limit < total).
C26_Timeline ==
    reply.kind = "timeline" =>
        /\ reply.status = 200
        /\ reply.total = TimelineTotal
        /\ Len(reply.activities)
              = IF reply.skip >= reply.total THEN 0
                ELSE Min(reply.limit, reply.total - reply.skip)
        /\ \A i \in DOMAIN reply.activities :
              LET a == reply.activities[i]
              IN /\ a.person_id = reply.person
                 /\ reply.activity_type \in {"none", "all", a.activity_type}
                 /\ reply.start_date # NoBound
                       => Leq(reply.start_date, a.occurred_at)
                 /\ reply.end_date # NoBound
                       => Leq(a.occurred_at, reply.end_date)
                 /\ \A j \in DOMAIN reply.activities :
                       i < j => Leq(reply.activities[j].occurred_at,
                                    a.occurred_at)
        /\ reply.has_more = (reply.skip + reply.limit < reply.total)

\* The range a stats request is answered for.
EffectiveRange ==
    IF reply.given[1] # NoDate /\ reply.given[2] # NoDate
    THEN reply.given
    ELSE calculate_period_range(reply.period, PeriodToday)

\* C27: get_period_stats returns the sums of conversations, tasks and
\* score over the person's summary rows whose day lies in the effective
\* range, and a daily breakdown of exactly those rows in ascending date
\* order; the effective range is the explicit [start, end] only when both
\* bounds are given, otherwise the range of the named period.
C27_PeriodStats ==
    reply.kind = "stats" =>
        LET R == RowsIn(reply.person, EffectiveRange[1], EffectiveRange[2])
            b == reply.daily_breakdown
        IN /\ <<reply.start_date, reply.end_date>> = EffectiveRange
           /\ reply.total_conversations = SumOf(R, "conversations_created")
           /\ reply.total_tasks_completed = SumOf(R, "tasks_completed")
           /\ reply.total_activity_score = SumOf(R, "total_activity_score")
           /\ Len(b) = Cardinality(R)
           /\ \A i, j \in DOMAIN b : i < j => b[i].date < b[j].date
           /\ \A i \in DOMAIN b :
                 \E r \in R :
                    /\ func_date(r.date) = b[i].date
                    /\ r.conversations_created = b[i].conversations_created
                    /\ r.tasks_completed = b[i].tasks_completed
                    /\ r.total_activity_score = b[i].total_activity_score

\* Only the end is given (the Monday): the monthly range is used, and the
\* row of Tuesday is part of the answer.
C27_Witness ==
    /\ reply.kind = "stats"
    /\ reply.period = "monthly"
    /\ reply.given = <<NoDate, PeriodToday - 1>>
    /\ [i \in DOMAIN reply.daily_breakdown |-> reply.daily_breakdown[i].date]
          = <<PeriodToday - 2, PeriodToday - 1, PeriodToday>>
    /\ reply.total_activity_score = 17
    /\ reply.total_tasks_completed = 5

\* The event of the ledger X with the external key of e: the conversation
\* id and the person, or the task id.
SameKey(X, e) ==
    {x \in X : /\ x.kind = e.kind
               /\ x.ext = e.ext
               /\ e.kind = "conversation" => x.person = e.person}

\* C28: after any sequence of syncs the ledger holds at most one
\* conversation event for each (conversation id, person) and at most one
\* task-completion event for each task id; a sync against an unchanged
\* source creates no event, reports 0 newly synced events and leaves every
\* occurrence timestamp unchanged; a sync never deletes an event, also when
\* the page has disappeared or is no longer Done.
C28_SyncIdempotent ==
    [][/\ \A e \in ledger' : SameKey(ledger', e) = {e}
       /\ \A e \in ledger : SameKey(ledger', e) # {}
       /\ (reply.kind = "sync" /\ reply.success /\ reply'.kind = "sync"
             /\ reply'.success)
            => /\ ledger' = ledger
               /\ reply'.conversations_synced = 0
               /\ reply'.tasks_synced = 0]_vars

\* The provider failed in the sync of which tk holds the result.
ProviderFailed(tk) ==
    tk.errors \cap {"Error syncing conversations", "Error syncing tasks"} # {}

\* C29: when the provider fails during the scheduled activities sync, the
\* attempt is reported as failed and the task is retried with backoff; it
\* does not return status "success" for that attempt.
C29_ProviderFailureRetried ==
    [][\A w \in Workers :
          (Exits(w) /\ task[w].ctype = "activities" /\ ProviderFailed(task'[w]))
            => /\ task'[w].result # "success"
               /\ task'[w].result \in {"retry", "failure"}]_vars

\* D 00:00 UTC <= t < (D + 1) 00:00 UTC
InDay(t, d) == Leq(At(d, time_min), t) /\ ~Leq(At(d + 1, time_min), t)

\* C30: an event with timestamp t is counted by aggregate(P, D) exactly
\* when D 00:00 UTC <= t < (D + 1) 00:00 UTC: every event of a person is
\* counted in the summary of exactly one calendar day, and an event at
\* exactly midnight belongs to the day that starts then.
C30_HalfOpenDay ==
    /\ last # NoCall =>
          /\ last.conversations_created
                = SumN({g \in ledger : /\ g.kind = "conversation"
                                       /\ g.person = last.person
                                       /\ InDay(g.at, last.day)})
          /\ last.tasks_completed
                = SumN({g \in ledger : /\ g.kind = "task"
                                       /\ g.person = last.person
                                       /\ InDay(g.at, last.day)})
    /\ \A g \in ledger :
          Cardinality({d \in Days :
                          count_activities({g}, g.kind, g.person,
                                           start_datetime(d), end_datetime(d))
                              > 0}) = 1

\* Day 1 is aggregated: the event of its last microsecond counts, the one
\* at the midnight that ends it does not.
C30_Witness ==
    /\ last.day = 1
    /\ \E g, h \in ledger :
          /\ g.kind = "conversation" /\ h.kind = "conversation"
          /\ g.person = last.person /\ h.person = last.person
          /\ g.at = At(1, time_max)
          /\ h.at = At(2, time_min)
          /\ last.conversations_created = g.n


\* C31: aggregate(P, D) for a person and day without any conversation or
\* task event leaves exactly one summary row of (P, D), with
\* conversations_created = 0, tasks_completed = 0 and
\* total_activity_score = 0 (also when the call is repeated and overwrites
\* the row); a pair that was never aggregated has no row.
C31_EmptyDayRow ==
    /\ (/\ last # NoCall
        /\ EventsOn("conversation", last.person, last.day) = 0
        /\ EventsOn("task", last.person, last.day) = 0)
          => /\ Cardinality(RowsFor(summaries, last.person, last.day)) = 1
             /\ \A r \in RowsFor(summaries, last.person, last.day) :
                   /\ r.conversations_created = 0
                   /\ r.tasks_completed = 0
                   /\ r.total_activity_score = 0
             /\ last.conversations_created = 0
             /\ last.tasks_completed = 0
             /\ last.total_activity_score = 0
    /\ \A p \in Persons, d \in Days :
          (last = NoCall \/ last.person # p \/ last.day # d)
             => RowsFor(summaries, p, d) = {}

\* ann has no event on day 1 while bob has events that day; ann's day 1
\* was aggregated, and aggregated again.
C31_Witness ==
    /\ last # NoCall
    /\ last.repeat
    /\ last.person = "ann"
    /\ last.day = 1
    /\ EventsOn("conversation", "ann", 1) + EventsOn("task", "ann", 1) = 0
    /\ EventsOn("conversation", "bob", 1) > 0
    /\ EventsOn("task", "bob", 1) > 0
    /\ \E r \in summaries : r.person = "ann" /\ r.total_activity_score = 0

\* The member of the first board, in the snapshot's member order, that
\* holds todo i.
FirstHolder(s, i) ==
    s[CHOOSE k \in 1..Len(s) :
         s[k].id = i /\ \A j \in 1..(k - 1) : s[j].id # i].member

\* C32: when a todos refresh succeeds, each todo id of its source snapshot
\* is cached exactly once (also a todo on the boards of several members),
\* with the first member whose board holds it, and total_records is the
\* number of distinct todo ids of the snapshot.
C32_TodosDeduplicated ==
    [][\A w \in Workers :
          (/\ task[w].ctype = "todos"
           /\ task[w].pc = "meta"
           /\ task'[w].result = "success")
          => (/\ \A i \in IdsOf(task[w].snap) :
                    /\ Cardinality({r \in rows'["todos"] : r.id = i}) = 1
                    /\ \A r \in rows'["todos"] :
                          r.id = i => r.member = FirstHolder(task[w].snap, i)
              /\ meta'["todos"].total_records
                     = Cardinality(IdsOf(task[w].snap)))]_vars

\* C33: after any sequence of syncs the persons table holds at most one
\* person for each Notion user id; a reference to an unknown id creates
\* the person (created = true), a reference to a known id returns the
\* person of that id unchanged (created = false, no new row); a sync never
\* deletes a person, and the persons it reports as created are the rows it
\* added.
C33_OnePersonPerNotionId ==
    [][/\ \A r1, r2 \in people' :
             (r1.notion_id = r2.notion_id \/ r1.id = r2.id) => r1 = r2
       /\ people \subseteq people'
       /\ \A nid \in Persons :
             LET r == get_or_create_by_notion_id(people', nid)
             IN IF nid \in NotionIds(people')
                THEN /\ ~r.created
                     /\ r.people = people'
                     /\ r.person \in people'
                     /\ r.person.notion_id = nid
                ELSE /\ r.created
                     /\ r.person \notin people'
                     /\ r.person.notion_id = nid
                     /\ r.people = people' \cup {r.person}
       /\ (reply'.kind = "sync" /\ "Sync failed" \notin reply'.errors)
             => reply'.persons_created = Cardinality(people' \ people)]_vars

\* A sync that found ann, known from an earlier sync, and created bob.
C33_Witness ==
    /\ reply.kind = "sync"
    /\ reply.success
    /\ reply.persons_created = 1
    /\ NotionIds(people) = {"ann", "bob"}
    /\ Cardinality(people) = 2
    /\ notion.rev = 1

\* C34: for every set of active days and every today, current_streak <=
\* longest_streak; when longest_streak > 0 the days longest_streak_start ..
\* longest_streak_end are longest_streak days; and of several runs of the
\* maximum length the earliest is reported.
C34_StreakConsistent ==
    reply.kind = "streak" =>
        LET i == reply.info
        IN /\ i.current_streak <= i.longest_streak
           /\ i.longest_streak > 0 =>
                 /\ i.longest_streak_end - i.longest_streak_start + 1
                       = i.longest_streak
                 /\ IsRun(i.longest_streak_start, i.longest_streak_end)
                 /\ \A a \in ActiveDays :
                       IsRun(a, a + i.longest_streak - 1)
                          => i.longest_streak_start <= a

\* Three runs of two days; the first is reported, the last is the current.
C34_Witness ==
    /\ reply.kind = "streak"
    /\ reply.today = 8
    /\ ActiveDays = {1, 2, 4, 5, 7, 8}
    /\ reply.info.longest_streak = 2
    /\ reply.info.longest_streak_start = 1
    /\ reply.info.longest_streak_end = 2
    /\ reply.info.current_streak = 2
    /\ reply.info.current_streak_start = 7

\* C35: when the source fetch of a projects, tasks or todos refresh raises,
\* the failing fetch and the error handling that follows change no cached
\* row of the type, and with no other refresh of the type running the
\* cached rows are the rows from before the refresh, until the task exits.
C35_FetchFailureKeepsRows ==
    [][\A w \in Workers :
          (/\ Refreshing(w)
           /\ task'[w] # task[w]
           /\ \/ task[w].pc = "fetch" /\ task'[w].pc = "except"
              \/ task[w].pc = "except" /\ task[w].exc = FetchError)
          => (/\ rows'[task[w].ctype] = rows[task[w].ctype]
              /\ Alone(w) => rows'[task[w].ctype] = task[w].before)]_vars

\* A refresh of a cache that held a row failed in the fetch, was retried
\* and failed in the fetch again; the row is still cached.
C35_Witness ==
    \E w \in Workers :
        /\ IsCache(w)
        /\ Alone(w)
        /\ task[w].pc = "except"
        /\ task[w].exc = FetchError
        /\ task[w].retries = 1
        /\ task[w].before # {}
        /\ rows[task[w].ctype] = task[w].before
        /\ meta[task[w].ctype].error_message = FetchError

\* No task of cache type t is between its "set is_updating" commit and its
\* exit, in the state after the step.
NoRefreshAfter(t) ==
    \A w \in Workers : task'[w].ctype = t => ~task'[w].started

\* C36: in every state where no refresh of a cache type is in progress and
\* its metadata row exists, total_records is the number of cached rows of
\* the type and last_updated is the time of the last successful refresh's
\* final write: last_updated changes only when the row is created or a
\* refresh succeeds, and a failed refresh changes neither value.
C36_MetadataMatchesCache ==
    [][/\ \A t \in CacheTypes :
             (NoRefreshAfter(t) /\ meta'[t].exists)
                => meta'[t].total_records = Cardinality(rows'[t])
       /\ \A w \in Workers :
             (IsCache(w) /\ task'[w] # task[w])
                => LET t == task[w].ctype
                   IN /\ task[w].pc = "except"
                         => /\ meta'[t].total_records = meta[t].total_records
                            /\ meta'[t].last_updated = meta[t].last_updated
                      /\ (meta[t].exists
                            /\ meta'[t].last_updated # meta[t].last_updated)
                         => /\ task'[w].result = "success"
                            /\ meta'[t].last_updated = Stamp(w, "end")]_vars

\* C37: a todos refresh never deletes a cached team member: every step
\* keeps the cached members, a refresh adds members of its snapshot only
\* and has added all of them when its loop is through, so the cached
\* members are the union of the members of the snapshots processed so far;
\* after a successful refresh in a sequence of refreshes (none overlapping
\* it) the read path lists every cached member, a member that is not in
\* the snapshot with no todos.
C37_MembersNeverDeleted ==
    [][/\ members \subseteq members'
       /\ members' # members
             => \E w \in Workers :
                   /\ task[w].ctype = "todos"
                   /\ task[w].pc = "insert"
                   /\ task'[w] # task[w]
                   /\ members' \subseteq members \cup MembersOf(task[w].snap)
       /\ \A w \in Workers :
             /\ (task[w].ctype = "todos" /\ task[w].pc = "insert"
                    /\ task'[w].pc = "meta")
                   => members' = members \cup MembersOf(task[w].snap)
             /\ (task[w].ctype = "todos" /\ task[w].pc = "meta"
                    /\ task'[w].result = "success" /\ Alone(w))
                   => LET listed == get_all_member_todos(members', rows'["todos"])
                      IN /\ DOMAIN listed = members'
                         /\ MembersOf(task[w].snap) \subseteq members'
                         /\ \A m \in members' \ MembersOf(task[w].snap) :
                               listed[m] = {}]_vars

\* Member b was on an earlier snapshot and is not on the one of the last
\* successful refresh: b is still cached and has no todo.
C37_Witness ==
    \E w \in Workers :
        /\ task[w].ctype = "todos"
        /\ task[w].result = "success"
        /\ Alone(w)
        /\ members = {"a", "b"}
        /\ rows["todos"] # {}
        /\ \A r \in rows["todos"] : r.member = "a"
        /\ get_all_member_todos(members, rows["todos"])["b"] = {}

\* The task-completion events of the ledger X for the Kanban page id.
TaskEvents(X, id) == {e \in X : e.kind = "task" /\ e.ext = id}

\* C38: a completed task with several assignees yields exactly one
\* task-completion event, owned by the first assignee processed; the other
\* assignees get no event for it; no later sync changes the owner of an
\* existing task event.
C38_OneOwnerPerTask ==
    [][/\ \A e \in ledger :
             e.kind = "task" =>
                \E f \in ledger' :
                   f.kind = "task" /\ f.ext = e.ext /\ f.person = e.person
       /\ \A e \in ledger' :
             e.kind = "task" => Cardinality(TaskEvents(ledger', e.ext)) = 1
       /\ (/\ reply'.kind = "sync"
           /\ reply'.errors \cap {"Error syncing tasks", "Sync failed"} = {})
             => \A i \in DOMAIN notion.tasks :
                   LET page == notion.tasks[i]
                   IN page.status = "Done"
                         => /\ Cardinality(TaskEvents(ledger', page.id)) = 1
                            /\ TaskEvents(ledger, page.id) = {}
                                  => \A e \in TaskEvents(ledger', page.id) :
                                        e.person = page.assignees[1]]_vars

\* Task T, done by bob and ann, was synced: one event, owned by bob.
C38_Witness ==
    /\ reply.kind = "sync"
    /\ reply.success
    /\ reply.tasks_synced = 1
    /\ notion.tasks # <<>>
    /\ notion.tasks[1].status = "Done"
    /\ notion.tasks[1].assignees = <<"bob", "ann">>
    /\ Cardinality(TaskEvents(ledger, "T")) = 1
    /\ \A e \in TaskEvents(ledger, "T") : e.person = "bob"
    /\ NotionIds(people) = {"ann", "bob"}

\* The events of kind k that the ledger X holds for person p on day d.
EventsIn(X, k, p, d) ==
    SumN({g \in X : g.kind = k /\ g.person = p /\ g.at.day = d})

\* C39: when the scheduled activities task finishes with status "success"
\* and reports no errors, every known person has, for every day from
\* January 1 (day 1) to today (day NDays), one summary row whose counts
\* and score are those of the ledger as the task's sync step left it.
C39_SuccessMeansAggregated ==
    [][\A w \in Workers :
          (/\ task[w].ctype = "activities"
           /\ task[w].pc = "sync"
           /\ task'[w].result = "success"
           /\ task'[w].errors = {})
          => \A p \in NotionIds(people'), d \in Days :
                /\ Cardinality(RowsFor(summaries', p, d)) = 1
                /\ \A r \in RowsFor(summaries', p, d) :
                      /\ r.conversations_created
                            = EventsIn(ledger', "conversation", p, d)
                      /\ r.tasks_completed = EventsIn(ledger', "task", p, d)
                      /\ r.total_activity_score
                            = r.conversations_created + 2 * r.tasks_completed]_vars
====
